---------------------------- MODULE Spec2Model ----------------------------
(***************************************************************************)
(* POS integration core of milanospizzas/web-app:                          *)
(*   - SkyTabClient (token cache, rate-limit window, retry loop)           *)
(*   - SkyTabWebhookHandler.processWebhook (dedup + event application)     *)
(*   - POST /skytab/retry-failed (failed-request retry sweep)              *)
(* Time is in milliseconds, as in the source.  Every `await` on a network  *)
(* call, a database call or a timer is a suspension point and therefore a  *)
(* separate step; code between two suspension points is one step.          *)
(* The failures modelled are those of the vendor (HTTP status, network     *)
(* error, timeout, rejected credential exchange), of the provider          *)
(* operation, and two rejections by the data store that the code handles:  *)
(* pOSWebhookEvent.create in the webhook route and, in SpecWebhookStore,   *)
(* orderStatusHistory.create in handleTicketEvent.  Every other statement  *)
(* given to the data store is taken to execute.                            *)
(***************************************************************************)
EXTENDS Integers, Sequences, FiniteSets, TLC

VARIABLES
  now,            \* Date.now()
  accessToken,    \* SkyTabClient.accessToken (0 = null, else the token's id)
  tokenExpiry,    \* SkyTabClient.tokenExpiry (0 while accessToken is null)
  requestQueue,   \* SkyTabClient.requestQueue: timestamps of admitted attempts
  credsOk,        \* config.SKYTAB_API_KEY && config.SKYTAB_API_SECRET are set
  exchangeCalls,  \* credential-exchange fetches issued so far
  calls,          \* getAccessToken()/request() calls started so far
  cl,             \* per caller: position and locals of its current call
  failedRequests, \* table pos_failed_requests, in insertion order
  sweeps,         \* retry-failed invocations started so far
  sw,             \* per retry-failed invocation in progress: position and locals
  orders,         \* table orders: status, posOrderId, posSyncStatus per order id
  history,        \* table order_status_history, in insertion order
  menuLastSync,   \* menus.lastSyncAt per location id (0 = null)
  items,          \* table menu_items: isAvailable, is86ed, updatedAt per item id
  auditLog,       \* table audit_logs, in insertion order
  runs,           \* per processWebhook invocation: position and locals
  webhookEvents,  \* table pos_webhook_events, by eventId (unique)
  reqs,           \* per POST /skytab/webhook request: position, locals, answer
  secretSet,      \* config.SKYTAB_WEBHOOK_SECRET is set
  so,             \* the POST /skytab/send-order request: position, locals, answer
  co,             \* the caller of SkyTabProvider.cancelOrder: position, outcome
  posTicket,      \* the vendor's state of the ticket that cancelOrder is called for
  gs,             \* the caller of SkyTabProvider.getOrderStatus: position, outcome
  sm              \* the caller of POSService.syncMenu: position, outcome

clientVars == <<accessToken, tokenExpiry, requestQueue, credsOk,
                exchangeCalls, calls, cl>>
queueVars == <<failedRequests, sweeps, sw>>

routeVars == <<webhookEvents, reqs, secretSet>>

webhookVars == <<orders, history, menuLastSync, items, auditLog, runs, routeVars>>

svcVars == <<gs, sm>>

sendVars == <<so, co, posTicket, svcVars>>

vars == <<now, clientVars, queueVars, webhookVars, sendVars>>

---------------------------------------------------------------------------
(* Bounds of the model *)
MaxCalls == 3          \* calls started on the client in one behaviour
MaxNow == 600000      \* the clock is not advanced by Advance beyond this
MaxRows == 2           \* rows ever inserted into pos_failed_requests
MaxSweeps == 3         \* retry-failed invocations in one behaviour
MaxRowRetries == 3     \* largest maxRetries a row is created with
MaxRuns == 2           \* processWebhook invocations in one behaviour
MaxReqs == 2           \* POST /skytab/webhook requests in one behaviour
MaxCancels == 2        \* cancelOrder calls in one behaviour
MaxRateCalls == 62     \* request() calls in one behaviour of the rate-limit runs
MaxRateNow == 1000     \* idle time is not added beyond this in the rate-limit runs

(* Program constants *)
RATE_LIMIT_REQUESTS_PER_MINUTE == 60
RATE_LIMIT_WINDOW_MS == 60000
DEFAULT_RETRIES == 3
DEFAULT_RETRY_DELAY_MS == 1000
MAX_BACKOFF_MS == 30000
bufferMs == 300000

Callers == {1, 2}

(* Inputs *)
RetriesOptions == {0, 1, DEFAULT_RETRIES}      \* options.retries ?? DEFAULT_RETRIES
RetryDelayOptions == {0, 100, 20000}           \* options.retryDelay (0 = not given)
ExpiresInValues == {120, 600}                  \* result.expiresIn, seconds
AdvanceSteps == {bufferMs}                     \* idle time between calls
RateAdvanceSteps == {1000}                     \* idle time between calls, rate-limit runs

NoHeader == "absent"
RetryAfterHeaders == {NoHeader, "0", "2", "Wed, 21 Oct 2026 07:28:00 GMT"}

Min(a, b) == IF a < b THEN a ELSE b

RECURSIVE Pow2(_)
Pow2(n) == IF n = 0 THEN 1 ELSE 2 * Pow2(n - 1)

(* An error value as the catch blocks see it *)
NoError == [type |-> "none", code |-> "none", statusCode |-> 0]
SkyTabApiError(code, statusCode) ==
  [type |-> "SkyTabApiError", code |-> code, statusCode |-> statusCode]
TypeErrorV == [type |-> "TypeError", code |-> "none", statusCode |-> 0]
AbortErrorV == [type |-> "AbortError", code |-> "none", statusCode |-> 0]
PlainError == [type |-> "Error", code |-> "none", statusCode |-> 0]   \* a plain Error

(* What one vendor API attempt can come back with *)
HttpResp(status, code, ra) ==
  [kind |-> "http", status |-> status, code |-> code, retryAfter |-> ra]
VendorResponses ==
  { HttpResp(200, "none", NoHeader),
    HttpResp(400, "INVALID_REQUEST", NoHeader),
    HttpResp(404, "none", NoHeader),
    HttpResp(500, "INTERNAL_ERROR", NoHeader),
    HttpResp(503, "none", NoHeader) }
  \cup { HttpResp(429, "RATE_LIMIT_EXCEEDED", h) : h \in RetryAfterHeaders }
  \cup { [kind |-> "timeout", status |-> 0, code |-> "none", retryAfter |-> NoHeader],
         [kind |-> "network", status |-> 0, code |-> "none", retryAfter |-> NoHeader] }

TokenVendorResponses ==
  { HttpResp(200, "none", NoHeader), HttpResp(500, "INTERNAL_ERROR", NoHeader) }

(* What the credential exchange can come back with *)
ExchangeResponses ==
  { [kind |-> "ok", expiresIn |-> e] : e \in ExpiresInValues }
  \cup { [kind |-> "rejected", expiresIn |-> 0],
         [kind |-> "network", expiresIn |-> 0] }

TokenExchangeResponses == { x \in ExchangeResponses : x.kind # "network" }

---------------------------------------------------------------------------
(* SkyTabClient: pure helpers *)

\* getBackoffDelay(attempt, baseDelay)
getBackoffDelay(attempt, baseDelay) ==
  Min(baseDelay * Pow2(attempt), MAX_BACKOFF_MS)

isRetryableError_any(status) == status >= 400

\* isRetryableError(status) as called with a status only
isRetryableError(status) == status >= 500 \/ status = 429

\* parseInt(retryAfter, 10); -1 stands for NaN
ParseInt(h) ==
  CASE h = "0" -> 0
    [] h = "1" -> 1
    [] h = "2" -> 2
    [] OTHER -> -1

\* parseInt(retryAfter, 10) * 1000 || getBackoffDelay(attempt, baseRetryDelay)
RetryAfterDelay(h, attempt, baseDelay) ==
  IF ParseInt(h) > 0 THEN ParseInt(h) * 1000
  ELSE getBackoffDelay(attempt, baseDelay)

\* options?.retryDelay || DEFAULT_RETRY_DELAY_MS
BaseRetryDelay(opt) == IF opt = 0 THEN DEFAULT_RETRY_DELAY_MS ELSE opt

\* the cache test of getAccessToken
CacheValid ==
  /\ accessToken # 0
  /\ tokenExpiry # 0
  /\ now + bufferMs < tokenExpiry

\* requestQueue.filter(item => now - item.timestamp < RATE_LIMIT_WINDOW_MS)
RECURSIVE FilterWindow(_, _)
FilterWindow(q, t) ==
  IF q = <<>> THEN <<>>
  ELSE IF t - Head(q) < RATE_LIMIT_WINDOW_MS
       THEN <<Head(q)>> \o FilterWindow(Tail(q), t)
       ELSE FilterWindow(Tail(q), t)

---------------------------------------------------------------------------
(* Caller state *)

IdleCaller ==
  [ pc |-> "idle", op |-> "none",
    attempt |-> 0, maxRetries |-> 0, baseRetryDelay |-> 0,
    token |-> 0, tokenExp |-> 0, tokenAt |-> 0, xid |-> 0,
    lastError |-> NoError, thrown |-> NoError, result |-> "none",
    nAttempts |-> 0, nExchanges |-> 0, nTokenFail |-> 0, resps |-> <<>>, sleeps |-> <<>>,
    wakeAt |-> 0, sleepDelay |-> 0, sleepFor |-> "none",
    fullOldest |-> -1, admitAt |-> -1, respAt |-> <<>>, nAuthFail |-> 0 ]

ClientInit ==
  /\ now = 0
  /\ accessToken = 0
  /\ tokenExpiry = 0
  /\ requestQueue = <<>>
  /\ credsOk \in BOOLEAN
  /\ exchangeCalls = 0
  /\ calls = 0
  /\ cl = [p \in Callers |-> IdleCaller]

\* request(): the call returns / throws
Finish(c, res, err) ==
  [c EXCEPT !.pc = "done", !.result = res, !.thrown = err]

\* request(): sleep(delay) followed by `continue`
SleepThenContinue(c, delay, why) ==
  [c EXCEPT !.pc = "sleeping", !.wakeAt = now + delay,
            !.sleepDelay = delay, !.sleepFor = why,
            !.sleeps = Append(c.sleeps, [delay |-> delay, why |-> why,
                                         after |-> Len(c.resps),
                                         attempt |-> c.attempt])]

\* the loop test `attempt <= maxRetries`
LoopTest_strict(attempt, maxRetries) == attempt < maxRetries

LoopTest(attempt, maxRetries) == attempt <= maxRetries

\* request(): the end of an iteration (`continue`, or control falling out of the
\* catch block): attempt++ and the loop test; after the loop,
\* `throw lastError || new Error('Request failed after all retries')`
NextIteration(c) ==
  IF LoopTest(c.attempt + 1, c.maxRetries)
  THEN [c EXCEPT !.pc = "loop", !.attempt = c.attempt + 1]
  ELSE Finish([c EXCEPT !.attempt = c.attempt + 1], "error",
              IF c.lastError = NoError THEN PlainError ELSE c.lastError)

\* request(): the catch block, for a thrown error err
Catch(c, err) ==
  LET le == IF err.type = "AbortError" THEN SkyTabApiError("TIMEOUT", 408) ELSE err
      c1 == [c EXCEPT !.lastError = le]
  IN  IF err.type = "TypeError" /\ c.attempt < c.maxRetries
      THEN SleepThenContinue(c1, getBackoffDelay(c.attempt, c.baseRetryDelay), "network")
      ELSE IF err.type = "SkyTabApiError" /\ ~isRetryableError(err.statusCode)
      THEN Finish(c1, "error", err)
      ELSE NextIteration(c1)

\* request(): the `if (!response.ok)` block, for response r
NotOk(c, r) ==
  IF isRetryableError(r.status) /\ c.attempt < c.maxRetries
  THEN SleepThenContinue(c, getBackoffDelay(c.attempt, c.baseRetryDelay), "status")
  ELSE IF r.status = 429 /\ r.retryAfter # NoHeader /\ c.attempt < c.maxRetries
  THEN SleepThenContinue(c, RetryAfterDelay(r.retryAfter, c.attempt, c.baseRetryDelay),
                         "retry-after")
  ELSE Catch(c, SkyTabApiError(IF r.code = "none" THEN "UNKNOWN_ERROR" ELSE r.code,
                               r.status))

\* request(): the token is handed to the attempt and the vendor fetch is issued
IssueFetch(c, tok, exp) ==
  [c EXCEPT !.pc = "fetching", !.token = tok, !.tokenExp = exp,
            !.tokenAt = now, !.nAttempts = c.nAttempts + 1]

\* what the caller does with the outcome of `await this.getAccessToken()`
GotToken(c, tok, exp) ==
  IF c.op = "request" THEN IssueFetch(c, tok, exp)
  ELSE Finish([c EXCEPT !.token = tok, !.tokenExp = exp, !.tokenAt = now], "ok", NoError)

TokenFailed(c, err) ==
  LET c1 == [c EXCEPT !.nTokenFail = c.nTokenFail + 1,
                      !.nAuthFail = IF err.type = "Error" THEN @ + 1 ELSE @]
  IN  IF c.op = "request" THEN Catch(c1, err) ELSE Finish(c1, "error", err)

\* getAccessToken() up to its first suspension point, for caller p with locals c
TokenStep(p, c) ==
  IF CacheValid
  THEN /\ cl' = [cl EXCEPT ![p] = GotToken(c, accessToken, tokenExpiry)]
       /\ UNCHANGED <<accessToken, tokenExpiry, exchangeCalls>>
  ELSE IF ~credsOk
  THEN /\ cl' = [cl EXCEPT ![p] = TokenFailed(c, PlainError)]
       /\ UNCHANGED <<accessToken, tokenExpiry, exchangeCalls>>
  ELSE /\ exchangeCalls' = exchangeCalls + 1
       /\ cl' = [cl EXCEPT ![p] = [c EXCEPT !.pc = "exchanging",
                                             !.nExchanges = c.nExchanges + 1,
                                             !.xid = exchangeCalls + 1]]
       /\ UNCHANGED <<accessToken, tokenExpiry>>

---------------------------------------------------------------------------
(* SkyTabClient: steps *)

\* a caller calls getAccessToken() (testConnection, or a test)
CallGetAccessToken(p, from) ==
  /\ UNCHANGED <<queueVars, webhookVars, sendVars>>
  /\ cl[p].pc \in from
  /\ calls < MaxCalls
  /\ calls' = calls + 1
  /\ TokenStep(p, [IdleCaller EXCEPT !.op = "getAccessToken"])
  /\ UNCHANGED <<now, requestQueue, credsOk>>

\* a caller calls request(method, endpoint, body, options)
StartRequest(p, from, retries, retryDelay) ==
  /\ UNCHANGED <<queueVars, webhookVars>>
  /\ cl[p].pc \in from
  /\ calls' = calls + 1
  /\ cl' = [cl EXCEPT ![p] = [IdleCaller EXCEPT !.op = "request", !.pc = "loop",
                                               !.maxRetries = retries,
                                               !.baseRetryDelay = BaseRetryDelay(retryDelay)]]
  /\ UNCHANGED <<now, accessToken, tokenExpiry, requestQueue, credsOk, exchangeCalls>>

CallRequest(p, from, retries, retryDelay) ==
  /\ calls < MaxCalls
  /\ StartRequest(p, from, retries, retryDelay)
  /\ UNCHANGED sendVars

\* request(method, endpoint) with options { retries: 0 }, in the rate-limit runs
CallRequestRate(p) ==
  /\ calls < MaxRateCalls
  /\ StartRequest(p, {"idle", "done"}, 0, 0)
  /\ UNCHANGED sendVars

\* top of a loop iteration: checkRateLimit(), then getAccessToken()
LoopStep(p) ==
  LET c == cl[p]
      q == FilterWindow(requestQueue, now)
      waitTime == RATE_LIMIT_WINDOW_MS - (now - q[1])
  IN  /\ UNCHANGED <<queueVars, webhookVars, sendVars>>
      /\ c.pc = "loop"
      /\ IF Len(q) >= RATE_LIMIT_REQUESTS_PER_MINUTE /\ waitTime > 0
         THEN /\ requestQueue' = q
              /\ cl' = [cl EXCEPT ![p] = [c EXCEPT !.pc = "rateWait",
                                                    !.wakeAt = now + waitTime,
                                                    !.fullOldest = q[1]]]
              /\ UNCHANGED <<accessToken, tokenExpiry, exchangeCalls>>
         ELSE /\ requestQueue' = Append(q, now)
              /\ TokenStep(p, c)
      /\ UNCHANGED <<now, credsOk, calls>>

\* checkRateLimit(): the sleep is over; the request is recorded without a new test
RateWake(p) ==
  /\ UNCHANGED <<queueVars, webhookVars, sendVars>>
  /\ cl[p].pc = "rateWait"
  /\ now >= cl[p].wakeAt
  /\ requestQueue' = Append(requestQueue, now)
  /\ TokenStep(p, [cl[p] EXCEPT !.admitAt = now])
  /\ UNCHANGED <<now, credsOk, calls>>

\* getAccessToken(): the credential exchange answers
ExchangeResponse(p, x) ==
  LET c == cl[p]
  IN  /\ UNCHANGED <<queueVars, webhookVars, sendVars>>
      /\ c.pc = "exchanging"
      /\ IF x.kind = "ok"
         THEN /\ accessToken' = c.xid
              /\ tokenExpiry' = now + x.expiresIn * 1000
              /\ cl' = [cl EXCEPT ![p] = GotToken(c, c.xid, now + x.expiresIn * 1000)]
         ELSE /\ cl' = [cl EXCEPT ![p] =
                          TokenFailed(c, IF x.kind = "network" THEN TypeErrorV ELSE PlainError)]
              /\ UNCHANGED <<accessToken, tokenExpiry>>
      /\ UNCHANGED <<now, requestQueue, credsOk, exchangeCalls, calls>>

\* request(): the vendor fetch answers, times out or fails at network level
VendorAnswer(p, r) ==
  LET c == [cl[p] EXCEPT !.resps = Append(cl[p].resps, r),
                         !.respAt = Append(cl[p].respAt, cl[p].attempt)]
  IN  /\ UNCHANGED <<queueVars, webhookVars>>
      /\ cl[p].pc = "fetching"
      /\ cl' = [cl EXCEPT ![p] =
                  CASE r.kind = "timeout" -> Catch(c, AbortErrorV)
                    [] r.kind = "network" -> Catch(c, TypeErrorV)
                    [] r.status = 200 -> Finish(c, "ok", NoError)
                    [] OTHER -> NotOk(c, r)]
      /\ UNCHANGED <<now, accessToken, tokenExpiry, requestQueue, credsOk,
                     exchangeCalls, calls>>

VendorResponse(p, r) ==
  /\ VendorAnswer(p, r)
  /\ UNCHANGED sendVars

\* request(): sleep(delay) is over; `continue` runs attempt++ and the loop test
Wake(p) ==
  /\ UNCHANGED <<queueVars, webhookVars, sendVars>>
  /\ cl[p].pc = "sleeping"
  /\ now >= cl[p].wakeAt
  /\ cl' = [cl EXCEPT ![p] = NextIteration(cl[p])]
  /\ UNCHANGED <<now, accessToken, tokenExpiry, requestQueue, credsOk,
                 exchangeCalls, calls>>

\* the clock reaches the timer of a sleeping caller
TimerDue(p) ==
  /\ UNCHANGED <<queueVars, webhookVars, sendVars>>
  /\ cl[p].pc \in {"sleeping", "rateWait"}
  /\ cl[p].wakeAt > now
  /\ now' = cl[p].wakeAt
  /\ UNCHANGED <<accessToken, tokenExpiry, requestQueue, credsOk, exchangeCalls,
                 calls, cl>>

\* time passes between calls (answers and timers set the pace within a call)
Advance(d) ==
  /\ UNCHANGED <<queueVars, webhookVars, sendVars>>
  /\ \A p \in Callers : cl[p].pc \in {"idle", "done"}
  /\ now + d <= MaxNow
  /\ now' = now + d
  /\ UNCHANGED <<accessToken, tokenExpiry, requestQueue, credsOk, exchangeCalls,
                 calls, cl>>

\* P: callers; F: positions a call may start from; R, D: options.retries and
\* options.retryDelay values; V, X: vendor and credential-exchange answers.
\* RateWake is left to the specifications that fill the rate-limit window: with
\* at most MaxCalls calls of at most 1 + DEFAULT_RETRIES attempts the window of
\* RATE_LIMIT_REQUESTS_PER_MINUTE requests never fills.
ClientNext(P, F, R, D, V, X) ==
  \/ \E p \in P : CallGetAccessToken(p, F)
  \/ \E p \in P, r \in R, d \in D : CallRequest(p, F, r, d)
  \/ \E p \in P : LoopStep(p)
  \/ \E p \in P, x \in X : ExchangeResponse(p, x)
  \/ \E p \in P, r \in V : VendorResponse(p, r)
  \/ \E p \in P : Wake(p)
  \/ \E p \in P : TimerDue(p)
  \/ \E d \in AdvanceSteps : Advance(d)

\* idle time between the calls of the rate-limit runs
RateAdvance(d) ==
  /\ now + d <= MaxRateNow
  /\ Advance(d)

\* calls with { retries: 0 } that the vendor answers 200, from callers that may
\* overlap, until the rate-limit window fills
RateNext ==
  \/ \E p \in Callers : CallRequestRate(p)
  \/ \E p \in Callers : LoopStep(p)
  \/ \E p \in Callers : RateWake(p)
  \/ \E p \in Callers : ExchangeResponse(p, [kind |-> "ok", expiresIn |-> 600])
  \/ \E p \in Callers : VendorResponse(p, HttpResp(200, "none", NoHeader))
  \/ \E p \in Callers : TimerDue(p)
  \/ \E d \in RateAdvanceSteps : RateAdvance(d)

---------------------------------------------------------------------------
(* Failed-request queue: POST /skytab/retry-failed and queueFailedRequest *)

SWEEP_BATCH == 10
ENQUEUE_DELAY_MS == 60000
SWEEP_MAX_DELAY_MS == 1800000

Sweepers == {1, 2}

IdleSweep == [pc |-> "idle", batch |-> <<>>, i |-> 0]

\* the send-order request before it arrives
IdleSend == [pc |-> "idle", orderId |-> "none", error |-> NoError, status |-> 0,
             enqueued |-> 0, enqueuedAt |-> 0]

IdleCancel == [pc |-> "idle", calls |-> 0, returned |-> "none", ticketAtCall |-> "none",
               outcomes |-> <<>>]

\* the getOrderStatus call before it is made
IdleStatus == [pc |-> "idle", posOrderId |-> "none", ticketStatus |-> "none",
               status |-> "none", threw |-> FALSE]

\* the syncMenu call before it is made
IdleSync == [pc |-> "idle", locationId |-> "none", result |-> "none",
             flaggedInFlight |-> FALSE]

\* no route handler and no provider call in progress
QueueRest ==
  /\ so = IdleSend
  /\ co = IdleCancel
  /\ posTicket = "open"
  /\ gs = IdleStatus
  /\ sm = IdleSync
  /\ sweeps = 0
  /\ sw = [s \in Sweepers |-> IdleSweep]

QueueInit ==
  /\ QueueRest
  /\ failedRequests = <<>>

\* the `where` clause of findMany in retry-failed
Eligible(row) ==
  /\ row.status \in {"pending", "retrying"}
  /\ row.retryCount < row.maxRetries
  /\ (row.nextRetryAt = 0 \/ row.nextRetryAt <= now)

\* findMany({ where, take }): the first `take` eligible rows, each with the
\* column values it has at this moment
RECURSIVE SelectFrom(_, _)
SelectFrom(k, take) ==
  IF k > Len(failedRequests) \/ take = 0 THEN <<>>
  ELSE IF Eligible(failedRequests[k])
       THEN <<[id |-> k, retryCount |-> failedRequests[k].retryCount,
               maxRetries |-> failedRequests[k].maxRetries]>>
            \o SelectFrom(k + 1, take - 1)
       ELSE SelectFrom(k + 1, take)

\* the update of the catch block that omits `retryCount: { increment: 1 }`
FailureUpdate_noIncrement(row, request) ==
  [row EXCEPT !.status = IF request.retryCount + 1 >= request.maxRetries
                         THEN "abandoned" ELSE "pending",
              !.nextRetryAt = now + Min(1000 * Pow2(request.retryCount + 1),
                                        SWEEP_MAX_DELAY_MS),
              !.lastDelay = Min(1000 * Pow2(request.retryCount + 1),
                                SWEEP_MAX_DELAY_MS)]

\* the update of the catch block: `request` is the row as findMany returned it
FailureUpdate(row, request) ==
  [row EXCEPT !.status = IF request.retryCount + 1 >= request.maxRetries
                         THEN "abandoned" ELSE "pending",
              !.retryCount = row.retryCount + 1,
              !.nextRetryAt = now + Min(1000 * Pow2(request.retryCount + 1),
                                        SWEEP_MAX_DELAY_MS),
              !.lastDelay = Min(1000 * Pow2(request.retryCount + 1),
                                SWEEP_MAX_DELAY_MS)]

\* queueFailedRequest('order_submit', ...): retryCount, status and maxRetries
\* take their column defaults
FailedRowOf(requestType, m) ==
  [requestType |-> requestType, status |-> "pending", retryCount |-> 0,
   maxRetries |-> m, nextRetryAt |-> now + ENQUEUE_DELAY_MS, attempts |-> 0,
   lastDelay |-> 0, invoked |-> 0]

FailedRow(m) == FailedRowOf("order_submit", m)

\* the requestType values of stored rows: the one the send-order route queues
\* and one of another operation
RequestTypes == {"order_submit", "order_cancel"}

\* a row of any request type is stored
EnqueueOf(requestType, m) ==
  /\ Len(failedRequests) < MaxRows
  /\ failedRequests' = Append(failedRequests, FailedRowOf(requestType, m))
  /\ UNCHANGED <<now, clientVars, sweeps, sw, webhookVars, sendVars>>

Enqueue(m) ==
  /\ Len(failedRequests) < MaxRows
  /\ failedRequests' = Append(failedRequests, FailedRow(m))
  /\ UNCHANGED <<now, clientVars, sweeps, sw, webhookVars, sendVars>>

\* retry-failed: the handler starts and findMany answers
SweepBegin(s) ==
  /\ sw[s].pc = "idle"
  /\ LET b == SelectFrom(1, SWEEP_BATCH)
     IN  sw' = [sw EXCEPT ![s] = IF b = <<>> THEN IdleSweep
                                 ELSE [pc |-> "mark", batch |-> b, i |-> 1]]
  /\ UNCHANGED <<now, clientVars, failedRequests, webhookVars, sendVars>>

\* one of the MaxSweeps invocations of a behaviour
SweepSelect(s) ==
  /\ sweeps < MaxSweeps
  /\ sweeps' = sweeps + 1
  /\ SweepBegin(s)

\* retry-failed is invoked again and again (the count stops at MaxSweeps); only
\* the first MaxSweeps invocations may overlap with another one
SweepAgain(s) ==
  /\ sweeps >= MaxSweeps => \A t \in Sweepers \ {s} : sw[t].pc = "idle"
  /\ sweeps' = Min(sweeps + 1, MaxSweeps)
  /\ SweepBegin(s)

\* the handler stops after marking a row retrying (the server is restarted while
\* sendOrderToPOS is awaited); this happens in the first MaxSweeps invocations only
SweepStop(s) ==
  /\ sw[s].pc = "send"
  /\ sweeps < MaxSweeps
  /\ sw' = [sw EXCEPT ![s] = IdleSweep]
  /\ UNCHANGED <<now, clientVars, failedRequests, sweeps, webhookVars, sendVars>>

\* retry-failed: update({ status: 'retrying' }) for the current row
SweepMark(s) ==
  LET request == sw[s].batch[sw[s].i]
  IN  /\ sw[s].pc = "mark"
      /\ failedRequests' = [failedRequests EXCEPT ![request.id].status = "retrying"]
      /\ sw' = [sw EXCEPT ![s].pc = "send"]
      /\ UNCHANGED <<now, clientVars, sweeps, webhookVars, sendVars>>

\* retry-failed: for an order_submit row sendOrderToPOS answers (ok) or throws,
\* for any other row no call is made; the row is updated
SweepSend(s, ok) ==
  LET request == sw[s].batch[sw[s].i]
      called == failedRequests[request.id].requestType = "order_submit"
      row == [failedRequests[request.id] EXCEPT
                !.attempts = @ + 1,
                !.invoked = IF called THEN @ + 1 ELSE @]
  IN  /\ sw[s].pc = "send"
      /\ ~called => ok
      /\ failedRequests' = [failedRequests EXCEPT ![request.id] =
                              IF ok THEN [row EXCEPT !.status = "completed"]
                              ELSE FailureUpdate(row, request)]
      /\ sw' = [sw EXCEPT ![s] = IF sw[s].i < Len(sw[s].batch)
                                 THEN [@ EXCEPT !.pc = "mark", !.i = @ + 1]
                                 ELSE IdleSweep]
      /\ UNCHANGED <<now, clientVars, sweeps, webhookVars, sendVars>>

\* the clock reaches the nextRetryAt of a row
RetryDue(k) ==
  /\ k \in 1..Len(failedRequests)
  /\ failedRequests[k].nextRetryAt > now
  /\ now' = failedRequests[k].nextRetryAt
  /\ UNCHANGED <<clientVars, queueVars, webhookVars, sendVars>>

QueueNext(S) ==
  \/ \E m \in 1..MaxRowRetries : Enqueue(m)
  \/ \E s \in S : SweepSelect(s)
  \/ \E s \in S : SweepMark(s)
  \/ \E s \in S, ok \in BOOLEAN : SweepSend(s, ok)
  \/ \E k \in 1..MaxRows : RetryDue(k)

---------------------------------------------------------------------------
(* SkyTabWebhookHandler.processWebhook *)

RunIds == 1..MaxRuns

OrderIds == {"o1", "o2"}
ItemIds == {"i1"}
LocationIds == {"loc1"}

\* menu_items.posItemId and locations.posLocationId (not written by the handler)
PosItemId(i) == "g-" \o i
PosLocationId(l) == "L-" \o l

NoTicket ==
  [ticketGuid |-> "none", externalReference |-> "none", status |-> "none",
   validTime |-> TRUE]
Ticket(guid, ref, status, validTime) ==
  [ticketGuid |-> guid, externalReference |-> ref, status |-> status,
   validTime |-> validTime]
Payload(type, loc, ticket, stock, changed) ==
  [eventType |-> type, locationGuid |-> loc, ticket |-> ticket,
   stock |-> stock, changedItems |-> changed]

\* The deliveries the vendor can make; a redelivery of an eventId carries the
\* same payload.  validTime = FALSE: estimatedReadyTime is not a date, so that
\* order.update is rejected.  "L-zz", "g-zz", "t9"/"o9": ids that no local row
\* has; "ON_HOLD": a status outside SkyTabTicketStatus.
Payloads ==
  [ e1 |-> Payload("ticket.status_changed", "L-loc1",
                   Ticket("t1", "o1", "PREPARING", TRUE), <<>>, {}),
    e2 |-> Payload("ticket.cancelled", "L-loc1",
                   Ticket("t1", "none", "CANCELLED", TRUE), <<>>, {}),
    e3 |-> Payload("ticket.updated", "L-loc1",
                   Ticket("t9", "o9", "READY", TRUE), <<>>, {}),
    e4 |-> Payload("ticket.created", "L-loc1",
                   Ticket("t2", "o2", "OUT_FOR_DELIVERY", FALSE), <<>>, {}),
    e5 |-> Payload("stock.updated", "L-loc1", NoTicket,
                   <<[itemGuid |-> "g-zz", isAvailable |-> FALSE],
                     [itemGuid |-> "g-i1", isAvailable |-> FALSE]>>, {}),
    e6 |-> Payload("menu.item_availability_changed", "L-loc1", NoTicket, <<>>, {"g-i1"}),
    e7 |-> Payload("location.hours_changed", "L-loc1", NoTicket, <<>>, {}),
    e8 |-> Payload("order.paid", "L-loc1", NoTicket, <<>>, {}),
    e9 |-> Payload("ticket.updated", "L-loc1",
                   Ticket("t1", "o1", "OUT_FOR_DELIVERY", TRUE), <<>>, {}),
    e10 |-> Payload("menu.updated", "L-zz", NoTicket, <<>>, {}),
    e11 |-> Payload("location.hours_changed", "L-zz", NoTicket, <<>>, {}),
    e12 |-> Payload("ticket.status_changed", "L-loc1",
                    Ticket("t1", "o1", "ON_HOLD", TRUE), <<>>, {}) ]

EventIds == DOMAIN Payloads

TicketEvents == {"ticket.created", "ticket.updated", "ticket.status_changed"}
MenuEvents == {"menu.updated", "menu.item_availability_changed"}

\* mapSkyTabStatusToOrderStatus
mapSkyTabStatusToOrderStatus(status) ==
  CASE status = "PENDING" -> "pending"
    [] status = "CONFIRMED" -> "confirmed"
    [] status = "PREPARING" -> "preparing"
    [] status = "READY" -> "ready"
    [] status = "OUT_FOR_DELIVERY" -> "out-for-delivery"
    [] status = "COMPLETED" -> "completed"
    [] status = "CANCELLED" -> "cancelled"
    [] OTHER -> "pending"

\* a row of pos_webhook_events; status "none": no row with this eventId
NoEventRow == [status |-> "none", retryCount |-> 0, errorMessage |-> FALSE,
               processedAt |-> FALSE]

ReqIds == 1..MaxReqs

IdleReq == [pc |-> "idle", eventId |-> "none", signature |-> <<>>, verified |-> FALSE,
            status |-> 0, error |-> FALSE, created |-> FALSE, run |-> 0]

IdleRun ==
  [pc |-> "idle", eventId |-> "none", order |-> "none", i |-> 0,
   result |-> "none", writes |-> 0, afterFinished |-> FALSE, overlapped |-> FALSE]

\* table orders: o1 was submitted as ticket t1 and has status st, o2 was not
\* submitted
InitialOrders(st) ==
  [o \in OrderIds |->
     [status |-> IF o = "o1" THEN st ELSE "pending",
      posOrderId |-> IF o = "o1" THEN "t1" ELSE "none",
      posSyncStatus |-> IF o = "o1" THEN "synced" ELSE "pending"]]

\* the other tables and the handlers, before any delivery
WebhookRest ==
  /\ history = <<>>
  /\ menuLastSync = [l \in LocationIds |-> 1]
  /\ items = [i \in ItemIds |-> [isAvailable |-> TRUE, is86ed |-> FALSE, touched |-> 0]]
  /\ auditLog = <<>>
  /\ runs = [r \in RunIds |-> IdleRun]
  /\ webhookEvents = [e \in EventIds |-> NoEventRow]
  /\ reqs = [q \in ReqIds |-> IdleReq]

WebhookInit ==
  /\ orders = InitialOrders("pending")
  /\ WebhookRest

checkDuplicateEvent_wrongAction(eventId) ==
  \E k \in 1..Len(auditLog) :
    auditLog[k].action = "SKYTAB_HOURS_CHANGED" /\ auditLog[k].entityId = eventId

\* checkDuplicateEvent
checkDuplicateEvent(eventId) ==
  \E k \in 1..Len(auditLog) :
    auditLog[k].action = "SKYTAB_WEBHOOK" /\ auditLog[k].entityId = eventId

\* order.findFirst({ where: { OR: [{ posOrderId: ticketGuid }, { id: externalReference }] } })
MatchingOrders(t) ==
  {o \in OrderIds : orders[o].posOrderId = t.ticketGuid \/ o = t.externalReference}

LocationsOf(guid) == {l \in LocationIds : PosLocationId(l) = guid}

\* recordWebhookEvent
AuditRow(eventId, status) ==
  [action |-> "SKYTAB_WEBHOOK", entityId |-> eventId, status |-> status]

\* the statement after the event-type switch, or the catch block
AfterHandler(run, threw) ==
  [run EXCEPT !.pc = IF threw THEN "recordFailed" ELSE "record"]

\* processWebhook(payload) is entered
BeginRun(r, e) ==
  LET active == {q \in RunIds : runs[q].eventId = e /\ runs[q].pc \notin {"idle", "done"}}
  IN  /\ runs[r].pc = "idle"
      /\ runs' = [q \in RunIds |->
                    IF q = r
                    THEN [IdleRun EXCEPT !.pc = "check", !.eventId = e,
                            !.afterFinished = \E f \in RunIds :
                                runs[f].eventId = e /\ runs[f].pc = "done",
                            !.overlapped = active # {}]
                    ELSE IF q \in active THEN [runs[q] EXCEPT !.overlapped = TRUE]
                    ELSE runs[q]]
      /\ UNCHANGED <<now, clientVars, queueVars, sendVars, orders, history, menuLastSync,
                     items, auditLog>>

\* processWebhook(payload) is called directly
StartRun(r, e) ==
  /\ BeginRun(r, e)
  /\ UNCHANGED routeVars

\* checkDuplicateEvent answers; a new event is routed on its type
CheckDuplicate(r) ==
  LET run == runs[r]
      p == Payloads[run.eventId]
  IN  /\ run.pc = "check"
      /\ runs' = [runs EXCEPT ![r] =
            IF checkDuplicateEvent(run.eventId)
            THEN [run EXCEPT !.pc = "done", !.result = "Event already processed"]
            ELSE [run EXCEPT !.pc =
                    CASE p.eventType \in TicketEvents \cup {"ticket.cancelled"} -> "findOrder"
                      [] p.eventType \in MenuEvents -> "menu"
                      [] p.eventType = "stock.updated" -> "stock"
                      [] p.eventType = "location.hours_changed" -> "hours"
                      [] OTHER -> "record",
                  !.i = 1]]
      /\ UNCHANGED <<now, clientVars, queueVars, sendVars, routeVars, orders, history, menuLastSync,
                     items, auditLog>>

\* handleTicketEvent / handleTicketCancelled: order.findFirst answers
FindOrder(r, o) ==
  LET run == runs[r]
      m == MatchingOrders(Payloads[run.eventId].ticket)
  IN  /\ run.pc = "findOrder"
      /\ IF m = {} THEN o = "none" ELSE o \in m
      /\ runs' = [runs EXCEPT ![r] =
            IF o = "none" THEN AfterHandler(run, FALSE)
            ELSE [run EXCEPT !.pc = "updateOrder", !.order = o]]
      /\ UNCHANGED <<now, clientVars, queueVars, sendVars, routeVars, orders, history, menuLastSync,
                     items, auditLog>>

\* an update that leaves a cancelled or completed order as it is
UpdateOrder_keepsTerminal(r) ==
  LET run == runs[r]
      p == Payloads[run.eventId]
  IN  /\ run.pc = "updateOrder"
      /\ IF p.eventType = "ticket.cancelled"
         THEN /\ orders' = [orders EXCEPT ![run.order].status = "cancelled",
                                          ![run.order].posSyncStatus = "synced"]
              /\ runs' = [runs EXCEPT ![r].pc = "addHistory", ![r].writes = @ + 1]
         ELSE IF ~p.ticket.validTime
         THEN /\ runs' = [runs EXCEPT ![r] = AfterHandler(run, TRUE)]
              /\ UNCHANGED orders
         ELSE /\ orders' = [orders EXCEPT
                   ![run.order].status =
                       IF @ \in {"cancelled", "completed"} THEN @
                       ELSE mapSkyTabStatusToOrderStatus(p.ticket.status),
                   ![run.order].posOrderId = p.ticket.ticketGuid,
                   ![run.order].posSyncStatus = "synced"]
              /\ runs' = [runs EXCEPT ![r].pc = "addHistory", ![r].writes = @ + 1]
      /\ UNCHANGED <<now, clientVars, queueVars, sendVars, routeVars, history, menuLastSync, items, auditLog>>

\* handleTicketEvent / handleTicketCancelled: order.update
UpdateOrder(r) ==
  LET run == runs[r]
      p == Payloads[run.eventId]
  IN  /\ run.pc = "updateOrder"
      /\ IF p.eventType = "ticket.cancelled"
         THEN /\ orders' = [orders EXCEPT ![run.order].status = "cancelled",
                                          ![run.order].posSyncStatus = "synced"]
              /\ runs' = [runs EXCEPT ![r].pc = "addHistory", ![r].writes = @ + 1]
         ELSE IF ~p.ticket.validTime
         THEN /\ runs' = [runs EXCEPT ![r] = AfterHandler(run, TRUE)]
              /\ UNCHANGED orders
         ELSE /\ orders' = [orders EXCEPT
                   ![run.order].status = mapSkyTabStatusToOrderStatus(p.ticket.status),
                   ![run.order].posOrderId = p.ticket.ticketGuid,
                   ![run.order].posSyncStatus = "synced"]
              /\ runs' = [runs EXCEPT ![r].pc = "addHistory", ![r].writes = @ + 1]
      /\ UNCHANGED <<now, clientVars, queueVars, sendVars, routeVars, history, menuLastSync, items, auditLog>>

\* handleTicketEvent / handleTicketCancelled: orderStatusHistory.create
AddHistory(r) ==
  LET run == runs[r]
      p == Payloads[run.eventId]
  IN  /\ run.pc = "addHistory"
      /\ history' = Append(history,
            [orderId |-> run.order,
             status |-> IF p.eventType = "ticket.cancelled" THEN "cancelled"
                        ELSE mapSkyTabStatusToOrderStatus(p.ticket.status),
             eventId |-> run.eventId])
      /\ runs' = [runs EXCEPT ![r] = AfterHandler([run EXCEPT !.writes = @ + 1], FALSE)]
      /\ UNCHANGED <<now, clientVars, queueVars, sendVars, routeVars, orders, menuLastSync, items, auditLog>>

\* handleMenuEvent: location.findFirst, menu.updateMany, menuItem.updateMany
ApplyMenuEvent(r) ==
  LET run == runs[r]
      p == Payloads[run.eventId]
      locs == LocationsOf(p.locationGuid)
  IN  /\ run.pc = "menu"
      /\ IF locs = {}
         THEN /\ runs' = [runs EXCEPT ![r] = AfterHandler(run, FALSE)]
              /\ UNCHANGED <<menuLastSync, items>>
         ELSE /\ menuLastSync' = [l \in LocationIds |->
                                   IF l \in locs THEN 0 ELSE menuLastSync[l]]
              /\ items' = [i \in ItemIds |->
                             IF PosItemId(i) \in p.changedItems
                             THEN [items[i] EXCEPT !.touched = 1] ELSE items[i]]
              /\ runs' = [runs EXCEPT ![r] = AfterHandler([run EXCEPT !.writes = @ + 1], FALSE)]
      /\ UNCHANGED <<now, clientVars, queueVars, routeVars, orders, history, auditLog>>

HandleMenu(r) ==
  /\ ApplyMenuEvent(r)
  /\ UNCHANGED sendVars

\* a loop that gives up the batch at the first entry without a menu item
HandleStock_abortsOnMissing(r) ==
  LET run == runs[r]
      p == Payloads[run.eventId]
      it == p.stock[run.i]
      found == {i \in ItemIds : PosItemId(i) = it.itemGuid}
      next == IF run.i < Len(p.stock) THEN [run EXCEPT !.i = @ + 1]
              ELSE AfterHandler(run, FALSE)
  IN  /\ run.pc = "stock"
      /\ IF found = {}
         THEN /\ runs' = [runs EXCEPT ![r] = AfterHandler(run, TRUE)]
              /\ UNCHANGED items
         ELSE /\ items' = [i \in ItemIds |->
                             IF i \in found
                             THEN [items[i] EXCEPT !.is86ed = ~it.isAvailable,
                                                   !.isAvailable = it.isAvailable]
                             ELSE items[i]]
              /\ runs' = [runs EXCEPT ![r] = [next EXCEPT !.writes = @ + 1]]
      /\ UNCHANGED <<now, clientVars, queueVars, sendVars, routeVars, orders, history, menuLastSync, auditLog>>

\* handleStockEvent: one pass of the loop (menuItem.findFirst, menuItem.update)
HandleStock(r) ==
  LET run == runs[r]
      p == Payloads[run.eventId]
      it == p.stock[run.i]
      found == {i \in ItemIds : PosItemId(i) = it.itemGuid}
      next == IF run.i < Len(p.stock) THEN [run EXCEPT !.i = @ + 1]
              ELSE AfterHandler(run, FALSE)
  IN  /\ run.pc = "stock"
      /\ IF found = {}
         THEN /\ runs' = [runs EXCEPT ![r] = next]
              /\ UNCHANGED items
         ELSE /\ items' = [i \in ItemIds |->
                             IF i \in found
                             THEN [items[i] EXCEPT !.is86ed = ~it.isAvailable,
                                                   !.isAvailable = it.isAvailable]
                             ELSE items[i]]
              /\ runs' = [runs EXCEPT ![r] = [next EXCEPT !.writes = @ + 1]]
      /\ UNCHANGED <<now, clientVars, queueVars, sendVars, routeVars, orders, history, menuLastSync, auditLog>>

\* handleLocationEvent: location.findFirst, auditLog.create
HandleHours(r) ==
  LET run == runs[r]
      locs == LocationsOf(Payloads[run.eventId].locationGuid)
  IN  /\ run.pc = "hours"
      /\ auditLog' = IF locs = {} THEN auditLog
                     ELSE Append(auditLog, [action |-> "SKYTAB_HOURS_CHANGED",
                                            entityId |-> CHOOSE l \in locs : TRUE,
                                            status |-> "none"])
      /\ runs' = [runs EXCEPT ![r] = AfterHandler(run, FALSE)]
      /\ UNCHANGED <<now, clientVars, queueVars, sendVars, routeVars, orders, history, menuLastSync, items>>

\* recordWebhookEvent(..., 'processed') and the return, or
\* recordWebhookEvent(..., 'failed', message) and `throw error`
RecordEvent(r) ==
  LET run == runs[r]
  IN  /\ run.pc \in {"record", "recordFailed"}
      /\ auditLog' = Append(auditLog,
            AuditRow(run.eventId, IF run.pc = "record" THEN "processed" ELSE "failed"))
      /\ runs' = [runs EXCEPT ![r].pc = "done",
                              ![r].result = IF run.pc = "record" THEN "processed"
                                            ELSE "threw"]
      /\ UNCHANGED <<now, clientVars, queueVars, sendVars, routeVars, orders, history, menuLastSync, items>>

\* the ticket events of order o1 (ticket t1), and e4 whose order update is rejected
SeqEvents == {"e1", "e2", "e9", "e12", "e4"}

\* processWebhook(payload) is called when no other invocation is in progress
\* (invocations are numbered in the order they start)
StartRunSeq(r, e) ==
  /\ \A q \in RunIds : runs[q].pc \in {"idle", "done"}
  /\ \A q \in RunIds : q < r => runs[q].pc # "idle"
  /\ StartRun(r, e)

\* ticket events processed one after the other
WebhookSeqNext ==
  \/ \E r \in RunIds, e \in SeqEvents : StartRunSeq(r, e)
  \/ \E r \in RunIds : CheckDuplicate(r)
  \/ \E r \in RunIds, o \in OrderIds \cup {"none"} : FindOrder(r, o)
  \/ \E r \in RunIds : UpdateOrder(r)
  \/ \E r \in RunIds : AddHistory(r)
  \/ \E r \in RunIds : RecordEvent(r)

\* handleTicketEvent / handleTicketCancelled: orderStatusHistory.create is
\* rejected by the store (the order row was deleted meanwhile, or the statement
\* did not get through) and the error reaches processWebhook's catch block
AddHistoryRejected(r) ==
  LET run == runs[r]
  IN  /\ run.pc = "addHistory"
      /\ runs' = [runs EXCEPT ![r] = AfterHandler(run, TRUE)]
      /\ UNCHANGED <<now, clientVars, queueVars, sendVars, routeVars, orders, history,
                     menuLastSync, items, auditLog>>

WebhookNext ==
  \/ \E r \in RunIds, e \in EventIds : StartRun(r, e)
  \/ \E r \in RunIds : CheckDuplicate(r)
  \/ \E r \in RunIds, o \in OrderIds \cup {"none"} : FindOrder(r, o)
  \/ \E r \in RunIds : UpdateOrder(r)
  \/ \E r \in RunIds : AddHistory(r)
  \/ \E r \in RunIds : HandleMenu(r)
  \/ \E r \in RunIds : HandleStock(r)
  \/ \E r \in RunIds : HandleHours(r)
  \/ \E r \in RunIds : RecordEvent(r)

---------------------------------------------------------------------------
(* POST /skytab/webhook and SkyTabWebhookHandler.verifySignature *)

HexDigits == <<"0", "1", "2", "3", "4", "5", "6", "7", "8", "9",
               "a", "b", "c", "d", "e", "f">>

LowerOf(c) ==
  CASE c = "A" -> "a" [] c = "B" -> "b" [] c = "C" -> "c"
    [] c = "D" -> "d" [] c = "E" -> "e" [] c = "F" -> "f"
    [] OTHER -> c

UpperOf(c) ==
  CASE c = "a" -> "A" [] c = "b" -> "B" [] c = "c" -> "C"
    [] c = "d" -> "D" [] c = "e" -> "E" [] c = "f" -> "F"
    [] OTHER -> c

\* value of a hex digit, either case; -1 for any other character
HexVal(c) ==
  IF \E i \in 1..16 : HexDigits[i] = LowerOf(c)
  THEN (CHOOSE i \in 1..16 : HexDigits[i] = LowerOf(c)) - 1
  ELSE -1

\* Buffer.from(s, 'hex'): one byte per pair of hex digits; decoding stops at the
\* first pair that is not two hex digits, and a trailing single digit is dropped
RECURSIVE HexDecode(_)
HexDecode(s) ==
  IF Len(s) < 2 \/ HexVal(s[1]) < 0 \/ HexVal(s[2]) < 0 THEN <<>>
  ELSE <<16 * HexVal(s[1]) + HexVal(s[2])>> \o HexDecode(SubSeq(s, 3, Len(s)))

DIGEST_HEX_LEN == 64

EventSeq == <<"e1", "e2", "e3", "e4", "e5", "e6", "e7", "e8", "e9", "e10", "e11", "e12">>
EventNo(e) == CHOOSE i \in 1..Len(EventSeq) : EventSeq[i] = e

\* createHmac('sha256', webhookSecret).update(rawBody).digest('hex') for the body
\* of event e: a fixed string of 64 lower-case hex digits per body, different
\* bodies having different digests (the hash itself is not computed)
HmacTable ==
  [e \in EventIds |->
     [i \in 1..DIGEST_HEX_LEN |-> HexDigits[((EventNo(e) * 7 + i) % 16) + 1]]]

HmacHex(e) == HmacTable[e]

\* the x-skytab-signature headers a request for event e may carry ('' if absent)
SignatureHeaders(e) ==
  { HmacHex(e),
    [i \in 1..DIGEST_HEX_LEN |-> UpperOf(HmacHex(e)[i])],
    HmacHex(e) \o <<"z", "z">>,
    HmacHex(IF e = "e1" THEN "e2" ELSE "e1"),
    SubSeq(HmacHex(e), 1, 6),
    <<"i", "n", "v", "a", "l", "i", "d">>,
    <<>> }

\* the events delivered through the route: one per handler, one of them (e4)
\* with a payload whose handling throws
RouteEvents == {"e1", "e4", "e5", "e6", "e7"}

\* the requests the vendor or anyone else may send: every such event with its
\* digest, and event e1 with every header
WebhookRequests ==
  { <<e, HmacHex(e)>> : e \in RouteEvents }
  \cup { <<"e1", sig>> : sig \in SignatureHeaders("e1") }

\* Buffer.from(signature, 'hex') of every header, Buffer.from(expectedSignature, 'hex')
SignatureBuffers == [r \in WebhookRequests |-> HexDecode(r[2])]
ExpectedBuffers == [e \in EventIds |-> HexDecode(HmacHex(e))]

\* a comparison that stops at the end of the shorter buffer
verifySignature_prefix(e, signature) ==
  \/ ~secretSet
  \/ LET signatureBuffer == SignatureBuffers[<<e, signature>>]
         expectedBuffer == ExpectedBuffers[e]
     IN  \A i \in 1..Len(signatureBuffer) :
            i <= Len(expectedBuffer) => signatureBuffer[i] = expectedBuffer[i]

\* verifySignature(rawBody, signature), rawBody being the body of event e
verifySignature(e, signature) ==
  \/ ~secretSet
  \/ LET signatureBuffer == SignatureBuffers[<<e, signature>>]
         expectedBuffer == ExpectedBuffers[e]
     IN  /\ Len(signatureBuffer) = Len(expectedBuffer)
         /\ signatureBuffer = expectedBuffer

\* the request arrives (requests are numbered in their order of arrival);
\* verifySignature runs before the first await
Receive(q, e, sig) ==
  /\ reqs[q].pc = "idle"
  /\ \A q2 \in ReqIds : q2 < q => reqs[q2].pc # "idle"
  /\ reqs' = [reqs EXCEPT ![q] =
        IF verifySignature(e, sig)
        THEN [IdleReq EXCEPT !.pc = "create", !.eventId = e, !.signature = sig,
                             !.verified = TRUE]
        ELSE [IdleReq EXCEPT !.pc = "done", !.eventId = e, !.signature = sig,
                             !.status = 401]]
  /\ UNCHANGED <<now, clientVars, queueVars, sendVars, orders, history, menuLastSync, items,
                 auditLog, runs, webhookEvents, secretSet>>

\* an insert failure that is answered with 500 instead of being swallowed
CreateEvent_propagates(q) ==
  LET e == reqs[q].eventId
  IN  /\ reqs[q].pc = "create"
      /\ IF webhookEvents[e].status = "none"
         THEN /\ webhookEvents' = [webhookEvents EXCEPT ![e] =
                                     [NoEventRow EXCEPT !.status = "pending"]]
              /\ reqs' = [reqs EXCEPT ![q].pc = "scheduled", ![q].status = 200,
                                      ![q].created = TRUE]
         ELSE /\ reqs' = [reqs EXCEPT ![q].pc = "done", ![q].status = 500,
                                      ![q].error = TRUE]
              /\ UNCHANGED webhookEvents
      /\ UNCHANGED <<now, clientVars, queueVars, sendVars, orders, history, menuLastSync, items,
                     auditLog, runs, secretSet>>

\* pOSWebhookEvent.create answers: the row is stored, the processing is handed to
\* setImmediate and 200 is sent; or the insert is rejected (eventId is unique)
\* and the outer catch block sends 200 with error 'Processing failed'
CreateEvent(q) ==
  LET e == reqs[q].eventId
  IN  /\ reqs[q].pc = "create"
      /\ IF webhookEvents[e].status = "none"
         THEN /\ webhookEvents' = [webhookEvents EXCEPT ![e] =
                                     [NoEventRow EXCEPT !.status = "pending"]]
              /\ reqs' = [reqs EXCEPT ![q].pc = "scheduled", ![q].status = 200,
                                      ![q].created = TRUE]
         ELSE /\ reqs' = [reqs EXCEPT ![q].pc = "done", ![q].status = 200,
                                      ![q].error = TRUE]
              /\ UNCHANGED webhookEvents
      /\ UNCHANGED <<now, clientVars, queueVars, sendVars, orders, history, menuLastSync, items,
                     auditLog, runs, secretSet>>

\* the setImmediate callback starts: processWebhook(payload) is called
\* (invocations are numbered in the order they start)
RouteProcess(q, r) ==
  /\ reqs[q].pc = "scheduled"
  /\ \A r2 \in RunIds : r2 < r => runs[r2].pc # "idle"
  /\ BeginRun(r, reqs[q].eventId)
  /\ reqs' = [reqs EXCEPT ![q].pc = "processing", ![q].run = r]
  /\ UNCHANGED <<webhookEvents, secretSet>>

\* a callback that marks the row processed whatever processWebhook did
RouteSettle_alwaysProcessed(q) ==
  LET e == reqs[q].eventId
      run == runs[reqs[q].run]
  IN  /\ reqs[q].pc = "processing"
      /\ run.pc = "done"
      /\ webhookEvents' = [webhookEvents EXCEPT ![e] =
            [@ EXCEPT !.status = "processed", !.processedAt = TRUE]]
      /\ reqs' = [reqs EXCEPT ![q].pc = "done"]
      /\ UNCHANGED <<now, clientVars, queueVars, sendVars, orders, history, menuLastSync, items,
                     auditLog, runs, secretSet>>

\* the setImmediate callback: processWebhook returned or threw, and
\* pOSWebhookEvent.update records it
RouteSettle(q) ==
  LET e == reqs[q].eventId
      run == runs[reqs[q].run]
  IN  /\ reqs[q].pc = "processing"
      /\ run.pc = "done"
      /\ webhookEvents' = [webhookEvents EXCEPT ![e] =
            IF run.result = "threw"
            THEN [@ EXCEPT !.status = "failed", !.errorMessage = TRUE,
                           !.retryCount = @ + 1]
            ELSE [@ EXCEPT !.status = "processed", !.processedAt = TRUE]]
      /\ reqs' = [reqs EXCEPT ![q].pc = "done"]
      /\ UNCHANGED <<now, clientVars, queueVars, sendVars, orders, history, menuLastSync, items,
                     auditLog, runs, secretSet>>

\* webhook requests, which may overlap, and the processing they hand off
RouteNext ==
  \/ \E q \in ReqIds, r \in WebhookRequests : Receive(q, r[1], r[2])
  \/ \E q \in ReqIds : CreateEvent(q)
  \/ \E q \in ReqIds, r \in RunIds : RouteProcess(q, r)
  \/ \E q \in ReqIds : RouteSettle(q)
  \/ \E r \in RunIds : CheckDuplicate(r)
  \/ \E r \in RunIds, o \in OrderIds \cup {"none"} : FindOrder(r, o)
  \/ \E r \in RunIds : UpdateOrder(r)
  \/ \E r \in RunIds : AddHistory(r)
  \/ \E r \in RunIds : HandleMenu(r)
  \/ \E r \in RunIds : HandleStock(r)
  \/ \E r \in RunIds : HandleHours(r)
  \/ \E r \in RunIds : RecordEvent(r)

---------------------------------------------------------------------------
(* POST /skytab/send-order, POSService.sendOrderToPOS, SkyTabProvider.sendOrder *)

\* request.body.orderId: two stored orders, an unknown id, and '' (rejected by
\* sendOrderSchema)
SendBodies == {"o1", "o2", "o9", ""}

\* order.location.posSystemType (the location of o2 has none)
PosSystemType(o) == IF o = "o1" THEN "skytab" ELSE "none"

ZodErrorV == [type |-> "ZodError", code |-> "none", statusCode |-> 0]

\* SkyTabProvider.handleApiError
handleApiError(error, defaultCode) ==
  IF error.type = "SkyTabApiError" THEN error ELSE SkyTabApiError(defaultCode, 500)

\* the test of the route's catch block
ShouldQueue(error) == error.code = "SERVICE_UNAVAILABLE" \/ error.statusCode >= 500

\* the route's catch block up to its first await, for a caught error
SendCatch(error) ==
  IF ShouldQueue(error)
  THEN [so EXCEPT !.pc = "enqueue", !.error = error]
  ELSE [so EXCEPT !.pc = "done", !.error = error, !.status = 500]

\* the request arrives: sendOrderSchema.parse, then sendOrderToPOS is entered
SendReceive(body) ==
  /\ UNCHANGED <<co, posTicket, svcVars>>
  /\ so.pc = "idle"
  /\ so' = IF body = "" THEN SendCatch(ZodErrorV)
           ELSE [so EXCEPT !.pc = "findOrder", !.orderId = body]
  /\ UNCHANGED <<now, clientVars, failedRequests, sweeps, sw, webhookVars>>

\* sendOrderToPOS: order.findUnique answers; provider.sendOrder posts the ticket
SendFindOrder ==
  /\ UNCHANGED <<co, posTicket, svcVars>>
  /\ so.pc = "findOrder"
  /\ IF so.orderId \notin OrderIds \/ PosSystemType(so.orderId) = "none"
     THEN /\ so' = [SendCatch(PlainError) EXCEPT !.orderId = so.orderId]
          /\ UNCHANGED <<now, clientVars, queueVars, webhookVars>>
     ELSE /\ so' = [so EXCEPT !.pc = "sending"]
          /\ StartRequest(1, {"idle"}, DEFAULT_RETRIES, 0)
          /\ UNCHANGED <<now, accessToken, tokenExpiry, requestQueue, credsOk,
                         exchangeCalls>>

\* request() has returned or thrown; sendOrderToPOS updates the order and
\* returns the result or rethrows what handleApiError made of the error
SendUpdateOrder ==
  /\ UNCHANGED <<co, posTicket, svcVars>>
  /\ so.pc = "sending"
  /\ cl[1].pc = "done"
  /\ IF cl[1].result = "ok"
     THEN /\ orders' = [orders EXCEPT ![so.orderId].posOrderId = "t-new",
                                      ![so.orderId].posSyncStatus = "synced"]
          /\ so' = [so EXCEPT !.pc = "done", !.status = 200]
     ELSE /\ orders' = [orders EXCEPT ![so.orderId].posSyncStatus = "failed"]
          /\ so' = SendCatch(handleApiError(cl[1].thrown, "ORDER_SUBMIT_FAILED"))
  /\ UNCHANGED <<now, clientVars, queueVars, history, menuLastSync, items, auditLog,
                 runs, routeVars>>

\* queueFailedRequest: pOSFailedRequest.create answers; the route answers 500
SendEnqueue(m) ==
  /\ UNCHANGED <<co, posTicket, svcVars>>
  /\ so.pc = "enqueue"
  /\ failedRequests' = Append(failedRequests, FailedRow(m))
  /\ so' = [so EXCEPT !.pc = "done", !.status = 500, !.enqueued = @ + 1,
                      !.enqueuedAt = now]
  /\ UNCHANGED <<now, clientVars, sweeps, sw, webhookVars>>

---------------------------------------------------------------------------
(* SkyTabProvider.cancelOrder *)

CancelOk == HttpResp(200, "none", NoHeader)

\* what the vendor can answer to POST /tickets/{guid}/cancel, given the state of
\* the ticket; any attempt can also fail with a 5xx, time out or fail at
\* network level
CancelAnswers(t) ==
  (CASE t = "open" -> {CancelOk}
     [] t = "cancelled" -> {HttpResp(400, "INVALID_TICKET_STATUS", NoHeader)}
     [] OTHER -> {HttpResp(404, "TICKET_NOT_FOUND", NoHeader)})
  \cup { HttpResp(500, "INTERNAL_ERROR", NoHeader),
         [kind |-> "timeout", status |-> 0, code |-> "none", retryAfter |-> NoHeader],
         [kind |-> "network", status |-> 0, code |-> "none", retryAfter |-> NoHeader] }

AllCancelAnswers == UNION {CancelAnswers(t) : t \in {"open", "cancelled", "gone"}}

CancelExchangeResponses == {[kind |-> "ok", expiresIn |-> 600], [kind |-> "rejected", expiresIn |-> 0]}

\* cancelOrder(posOrderId) is called: skyTabClient.post without options
CancelCall ==
  /\ co.pc \in {"idle", "done"}
  /\ co.calls < MaxCancels
  /\ co' = [co EXCEPT !.pc = "posting", !.calls = @ + 1, !.returned = "none",
                      !.ticketAtCall = posTicket]
  /\ StartRequest(1, {"idle", "done"}, DEFAULT_RETRIES, 0)
  /\ UNCHANGED <<now, accessToken, tokenExpiry, requestQueue, credsOk, exchangeCalls,
                 so, posTicket, svcVars>>

\* the vendor answers an attempt of the cancel call; it has cancelled an open
\* ticket when it answers 200, and possibly when the attempt timed out
CancelVendorResponse(r, cancelled) ==
  /\ co.pc = "posting"
  /\ r \in CancelAnswers(posTicket)
  /\ cancelled => posTicket = "open" /\ (r = CancelOk \/ r.kind = "timeout")
  /\ r = CancelOk => cancelled
  /\ VendorAnswer(1, r)
  /\ posTicket' = IF cancelled THEN "cancelled" ELSE posTicket
  /\ UNCHANGED <<so, co, svcVars>>

\* the vendor no longer has the ticket
TicketDropped ==
  /\ posTicket # "gone"
  /\ co.pc # "posting"
  /\ posTicket' = "gone"
  /\ UNCHANGED <<now, clientVars, queueVars, webhookVars, so, co, svcVars>>

\* a catch block that takes only TICKET_NOT_FOUND for a success
CancelSettle_onlyNotFound ==
  LET c == cl[1]
      res == IF c.result = "ok" THEN "true"
             ELSE IF c.thrown.type = "SkyTabApiError" /\ c.thrown.code = "TICKET_NOT_FOUND"
             THEN "true"
             ELSE "threw"
  IN  /\ co.pc = "posting"
      /\ c.pc = "done"
      /\ co' = [co EXCEPT !.pc = "done", !.returned = res,
                          !.outcomes = Append(@, res)]
      /\ UNCHANGED <<now, clientVars, queueVars, webhookVars, so, posTicket, svcVars>>

\* request() has returned or thrown: cancelOrder returns response.result.success,
\* or true for the two error codes, or throws handleApiError(error)
CancelSettle ==
  LET c == cl[1]
      res == IF c.result = "ok" THEN "true"
             ELSE IF c.thrown.type = "SkyTabApiError"
                     /\ c.thrown.code \in {"TICKET_NOT_FOUND", "INVALID_TICKET_STATUS"}
             THEN "true"
             ELSE "threw"
  IN  /\ co.pc = "posting"
      /\ c.pc = "done"
      /\ co' = [co EXCEPT !.pc = "done", !.returned = res,
                          !.outcomes = Append(@, res)]
      /\ UNCHANGED <<now, clientVars, queueVars, webhookVars, so, posTicket, svcVars>>

\* cancelOrder calls made one after another for one ticket
CancelNext ==
  \/ CancelCall
  \/ LoopStep(1)
  \/ \E x \in CancelExchangeResponses : ExchangeResponse(1, x)
  \/ \E r \in AllCancelAnswers, cancelled \in BOOLEAN : CancelVendorResponse(r, cancelled)
  \/ Wake(1)
  \/ TimerDue(1)
  \/ TicketDropped
  \/ CancelSettle

\* one send-order request and the request() call it makes
SendNext ==
  \/ \E body \in SendBodies : SendReceive(body)
  \/ SendFindOrder
  \/ LoopStep(1)
  \/ \E x \in ExchangeResponses : ExchangeResponse(1, x)
  \/ \E r \in VendorResponses : VendorResponse(1, r)
  \/ Wake(1)
  \/ TimerDue(1)
  \/ SendUpdateOrder
  \/ \E m \in 1..MaxRowRetries : SendEnqueue(m)

---------------------------------------------------------------------------
(* SkyTabProvider.getOrderStatus and the two status mappings *)

\* SkyTabTicketStatus, and the values the vendor's answer may carry: the seven
\* of the type and one outside it
TicketStatuses ==
  {"PENDING", "CONFIRMED", "PREPARING", "READY", "OUT_FOR_DELIVERY", "COMPLETED",
   "CANCELLED"}
AnsweredStatuses == TicketStatuses \cup {"ON_HOLD"}

\* POSOrderStatus['status'] and the order statuses of the platform
POSOrderStatuses == {"pending", "confirmed", "preparing", "ready", "completed", "cancelled"}
ORDER_STATUSES == POSOrderStatuses \cup {"out-for-delivery"}

\* SkyTabProvider.mapSkyTabStatusToLocal
mapSkyTabStatusToLocal(status) ==
  CASE status = "PENDING" -> "pending"
    [] status = "CONFIRMED" -> "confirmed"
    [] status = "PREPARING" -> "preparing"
    [] status = "READY" -> "ready"
    [] status = "OUT_FOR_DELIVERY" -> "ready"
    [] status = "COMPLETED" -> "completed"
    [] status = "CANCELLED" -> "cancelled"
    [] OTHER -> "pending"

\* the ticket events delivered while the status of their ticket is queried
StatusEvents == {"e1", "e9", "e12"}

StatusVendorResponses ==
  { HttpResp(200, "none", NoHeader), HttpResp(404, "TICKET_NOT_FOUND", NoHeader),
    HttpResp(500, "INTERNAL_ERROR", NoHeader) }

\* getOrderStatus(posOrderId) is called: skyTabClient.get without options
GetStatusCall(t) ==
  /\ gs.pc = "idle"
  /\ gs' = [gs EXCEPT !.pc = "getting", !.posOrderId = t]
  /\ StartRequest(1, {"idle"}, DEFAULT_RETRIES, 0)
  /\ UNCHANGED <<now, accessToken, tokenExpiry, requestQueue, credsOk, exchangeCalls,
                 so, co, posTicket, sm>>

\* request() has returned the vendor's answer, whose ticket has `status`, or has
\* thrown: getOrderStatus returns the mapped status or throws handleApiError(error)
GetStatusSettle(status) ==
  /\ gs.pc = "getting"
  /\ cl[1].pc = "done"
  /\ IF cl[1].result = "ok"
     THEN gs' = [gs EXCEPT !.pc = "done", !.ticketStatus = status,
                           !.status = mapSkyTabStatusToLocal(status)]
     ELSE /\ status = "PENDING"
          /\ gs' = [gs EXCEPT !.pc = "done", !.threw = TRUE]
  /\ UNCHANGED <<now, clientVars, queueVars, webhookVars, so, co, posTicket, sm>>

\* one getOrderStatus call for ticket t1 while ticket events for t1 are processed
StatusNext ==
  \/ GetStatusCall("t1")
  \/ LoopStep(1)
  \/ ExchangeResponse(1, [kind |-> "ok", expiresIn |-> 600])
  \/ \E r \in StatusVendorResponses : VendorResponse(1, r)
  \/ Wake(1)
  \/ TimerDue(1)
  \/ \E status \in AnsweredStatuses : GetStatusSettle(status)
  \/ \E r \in RunIds, e \in StatusEvents : StartRun(r, e)
  \/ \E r \in RunIds : CheckDuplicate(r)
  \/ \E r \in RunIds, o \in OrderIds \cup {"none"} : FindOrder(r, o)
  \/ \E r \in RunIds : UpdateOrder(r)
  \/ \E r \in RunIds : AddHistory(r)
  \/ \E r \in RunIds : RecordEvent(r)

---------------------------------------------------------------------------
(* POSService.syncMenu and SkyTabProvider.syncFullMenu *)

\* the locationId arguments: a stored location and an unknown id
SyncLocations == LocationIds \cup {"loc9"}

\* the menu events delivered while the menu is synced
MenuSyncEvents == {"e6", "e10"}

\* new Date() at time t as stored in lastSyncAt (0 stands for null)
StampAt(t) == t + 2

\* syncMenu(locationId) is called: location.findUnique answers, and
\* syncFullMenu issues skyTabClient.get for the catalog
SyncCall(l) ==
  /\ sm.pc = "idle"
  /\ IF l \notin LocationIds
     THEN /\ sm' = [sm EXCEPT !.pc = "done", !.locationId = l, !.result = "threw"]
          /\ UNCHANGED <<now, clientVars, queueVars, webhookVars>>
     ELSE /\ sm' = [sm EXCEPT !.pc = "fetching", !.locationId = l]
          /\ StartRequest(1, {"idle"}, DEFAULT_RETRIES, 0)
          /\ UNCHANGED <<now, accessToken, tokenExpiry, requestQueue, credsOk,
                         exchangeCalls>>
  /\ UNCHANGED <<so, co, posTicket, gs>>

\* request() has returned the catalog or has thrown; syncFullMenu maps the
\* catalog and calls logMenuSync, or throws handleApiError(error)
SyncFetched ==
  /\ sm.pc = "fetching"
  /\ cl[1].pc = "done"
  /\ sm' = IF cl[1].result = "ok" THEN [sm EXCEPT !.pc = "logging"]
           ELSE [sm EXCEPT !.pc = "done", !.result = "threw"]
  /\ UNCHANGED <<now, clientVars, queueVars, webhookVars, so, co, posTicket, gs>>

\* logMenuSync: auditLog.create answers and syncFullMenu returns
SyncLog ==
  /\ sm.pc = "logging"
  /\ auditLog' = Append(auditLog, [action |-> "SKYTAB_MENU_SYNC",
                                   entityId |-> sm.locationId, status |-> "none"])
  /\ sm' = [sm EXCEPT !.pc = "stamping"]
  /\ UNCHANGED <<now, clientVars, queueVars, orders, history, menuLastSync, items,
                 runs, routeVars, so, co, posTicket, gs>>

\* syncMenu: menu.updateMany({ where: { locationId }, data: { lastSyncAt: new Date() } })
SyncStamp ==
  /\ sm.pc = "stamping"
  /\ menuLastSync' = [menuLastSync EXCEPT ![sm.locationId] = StampAt(now)]
  /\ sm' = [sm EXCEPT !.pc = "done", !.result = "ok"]
  /\ UNCHANGED <<now, clientVars, queueVars, orders, history, items, auditLog,
                 runs, routeVars, so, co, posTicket, gs>>

\* handleMenuEvent while syncMenu may be in flight; it is noted whether the menus
\* of the synced location were flagged after the catalog had been fetched and
\* before lastSyncAt was stamped
HandleMenuInSync(r) ==
  /\ ApplyMenuEvent(r)
  /\ sm' = [sm EXCEPT !.flaggedInFlight =
              \/ @
              \/ /\ sm.pc \in {"logging", "stamping"}
                 /\ sm.locationId \in LocationsOf(Payloads[runs[r].eventId].locationGuid)]
  /\ UNCHANGED <<so, co, posTicket, gs>>

\* one syncMenu call while menu events are processed
MenuSyncNext ==
  \/ \E l \in SyncLocations : SyncCall(l)
  \/ LoopStep(1)
  \/ ExchangeResponse(1, [kind |-> "ok", expiresIn |-> 600])
  \/ \E r \in StatusVendorResponses : VendorResponse(1, r)
  \/ Wake(1)
  \/ TimerDue(1)
  \/ SyncFetched
  \/ SyncLog
  \/ SyncStamp
  \/ \E r \in RunIds, e \in MenuSyncEvents : StartRun(r, e)
  \/ \E r \in RunIds : CheckDuplicate(r)
  \/ \E r \in RunIds : HandleMenuInSync(r)
  \/ \E r \in RunIds : RecordEvent(r)

---------------------------------------------------------------------------
\* a deployment with the webhook secret configured
Init ==
  /\ ClientInit
  /\ QueueInit
  /\ WebhookInit
  /\ secretSet = TRUE

\* one call on a fresh client, every option and every vendor answer
NextRetry ==
  ClientNext({1}, {"idle"}, RetriesOptions, RetryDelayOptions,
             VendorResponses, ExchangeResponses)

SpecRetry == Init /\ [][NextRetry]_vars

\* up to MaxCalls calls from two callers that may overlap
NextToken ==
  ClientNext(Callers, {"idle", "done"}, {1}, {0},
             TokenVendorResponses, TokenExchangeResponses)

SpecToken == Init /\ [][NextToken]_vars

\* up to MaxCalls calls made one after another by one caller
NextSeq ==
  ClientNext({1}, {"idle", "done"}, {1}, {0},
             TokenVendorResponses, TokenExchangeResponses)

SpecSeq == Init /\ [][NextSeq]_vars

\* calls that fill the rate-limit window, on a client whose credentials are
\* configured (every admitted attempt reaches the vendor)
InitRate == Init /\ credsOk

SpecRate == InitRate /\ [][RateNext]_vars

\* cancelOrder calls for one ticket
SpecCancel == Init /\ [][CancelNext]_vars

\* one POST /skytab/send-order request
SpecSend == Init /\ [][SendNext]_vars

\* one getOrderStatus call and ticket webhooks, on a client whose credentials are
\* configured
SpecStatus == InitRate /\ [][StatusNext]_vars

\* one syncMenu call and menu webhooks, on a client whose credentials are
\* configured
SpecMenuSync == InitRate /\ [][MenuSyncNext]_vars

\* retry sweeps run one after another (one handler in progress at a time)
NextQueueSeq == QueueNext({1})

SpecQueueSeq == Init /\ [][NextQueueSeq]_vars

\* sweeps run one after another over rows of any request type
NextQueueTypes ==
  \/ \E t \in RequestTypes, m \in 1..MaxRowRetries : EnqueueOf(t, m)
  \/ SweepSelect(1)
  \/ SweepMark(1)
  \/ \E ok \in BOOLEAN : SweepSend(1, ok)
  \/ \E k \in 1..MaxRows : RetryDue(k)

SpecQueueTypes == Init /\ [][NextQueueTypes]_vars

\* retry-failed requests may overlap
NextQueue == QueueNext(Sweepers)

SpecQueue == Init /\ [][NextQueue]_vars

\* the sweep is invoked again and again by the handlers in S while time advances
\* to every row's nextRetryAt
QueueLiveNext(S) ==
  \/ \E s \in S : SweepAgain(s)
  \/ \E s \in S : SweepMark(s)
  \/ \E s \in S, ok \in BOOLEAN : SweepSend(s, ok)
  \/ \E s \in S : SweepStop(s)
  \/ \E k \in 1..MaxRows : RetryDue(k)

\* every started handler runs on, every idle handler is invoked again, and the
\* clock reaches every nextRetryAt
QueueFairness(S) ==
  /\ \A s \in S : WF_vars(SweepAgain(s))
  /\ \A s \in S : WF_vars(SweepMark(s))
  /\ \A s \in S : WF_vars(\E ok \in BOOLEAN : SweepSend(s, ok))
  /\ \A k \in 1..MaxRows : WF_vars(RetryDue(k))

LiveRowRetries == {1, 2}

\* MaxRows rows have just been queued
InitQueueLive ==
  /\ ClientInit
  /\ credsOk
  /\ QueueRest
  /\ failedRequests \in [1..MaxRows -> {FailedRow(m) : m \in LiveRowRetries}]
  /\ WebhookInit
  /\ secretSet = TRUE

NextQueueLiveSeq == QueueLiveNext({1})

SpecQueueLiveSeq ==
  InitQueueLive /\ [][NextQueueLiveSeq]_vars /\ QueueFairness({1})

NextQueueLive == QueueLiveNext(Sweepers)

SpecQueueLive ==
  InitQueueLive /\ [][NextQueueLive]_vars /\ QueueFairness(Sweepers)

\* processWebhook invocations, which may overlap
SpecWebhook == Init /\ [][WebhookNext]_vars

\* ticket events processed in arrival order, whatever status order o1 has
InitWebhookSeq ==
  /\ ClientInit
  /\ credsOk
  /\ QueueInit
  /\ \E st \in ORDER_STATUSES : orders = InitialOrders(st)
  /\ WebhookRest
  /\ secretSet = TRUE

SpecWebhookSeq == InitWebhookSeq /\ [][WebhookSeqNext]_vars

\* processWebhook invocations when the store may reject the history insert
WebhookStoreNext ==
  \/ WebhookNext
  \/ \E r \in RunIds : AddHistoryRejected(r)

SpecWebhookStore == Init /\ [][WebhookStoreNext]_vars

\* POST /skytab/webhook requests, which may overlap, with and without a webhook
\* secret (the vendor credentials, which the route does not read, are configured)
InitRoute ==
  /\ ClientInit
  /\ credsOk
  /\ QueueInit
  /\ WebhookInit
  /\ secretSet \in BOOLEAN

SpecRoute == InitRoute /\ [][RouteNext]_vars

---------------------------------------------------------------------------
(* processWebhook: properties *)

HistoryRows(e) == Cardinality({k \in 1..Len(history) : history[k].eventId = e})

\* the invocations for event e that changed order, history, menu or item state
Writers(e) == {r \in RunIds : runs[r].eventId = e /\ runs[r].writes > 0}

Overlapped(e) == \E r \in RunIds : runs[r].eventId = e /\ runs[r].overlapped

C2_AtMostOnce ==
  \A e \in EventIds :
    /\ Cardinality(Writers(e)) <= 1
    /\ HistoryRows(e) <= 1

---------------------------------------------------------------------------
(* Failed-request queue: properties *)

Rows == 1..Len(failedRequests)

\* C3 (retry-queue bound): with sweeps run one after another, every row has
\* retryCount <= maxRetries and has been re-attempted at most maxRetries times.
C3_RetryBound ==
  \A k \in Rows :
    /\ failedRequests[k].retryCount <= failedRequests[k].maxRetries
    /\ failedRequests[k].attempts <= failedRequests[k].maxRetries

C3_Witness ==
  \E k \in Rows :
    /\ failedRequests[k].status = "abandoned"
    /\ failedRequests[k].maxRetries = 2
    /\ failedRequests[k].retryCount = 2
    /\ failedRequests[k].attempts = 2

Terminal(row) == row.status \in {"completed", "abandoned"}

\* C4 (sweep selection and terminal states): a row is re-attempted only while
\* its status is pending or retrying and its retryCount < maxRetries, and once
\* a row is completed or abandoned its status and retryCount never change and
\* it is not re-attempted.
C4_TerminalFrozen ==
  [][\A k \in Rows :
       /\ failedRequests'[k].attempts > failedRequests[k].attempts =>
             /\ failedRequests[k].status \in {"pending", "retrying"}
             /\ failedRequests[k].retryCount < failedRequests[k].maxRetries
       /\ Terminal(failedRequests[k]) =>
             /\ failedRequests'[k].status = failedRequests[k].status
             /\ failedRequests'[k].retryCount = failedRequests[k].retryCount
             /\ failedRequests'[k].attempts = failedRequests[k].attempts]_vars

\* C16 (sweep failure transition): when a sweep's re-attempt of a row fails, the
\* row's retryCount grows by exactly 1; the row becomes abandoned if and only if
\* the new retryCount >= maxRetries, and otherwise pending with nextRetryAt =
\* now + min(1000 * 2^(retryCount + 1), 1800000), retryCount being the value
\* before the increment; the delay is at least the delay of the row's previous
\* failure and at most 30 minutes.
C16_FailureTransition ==
  [][\A k \in Rows :
       (/\ failedRequests'[k].attempts = failedRequests[k].attempts + 1
        /\ failedRequests'[k].status # "completed") =>
          /\ failedRequests'[k].retryCount = failedRequests[k].retryCount + 1
          /\ (failedRequests'[k].status = "abandoned")
                = (failedRequests'[k].retryCount >= failedRequests[k].maxRetries)
          /\ failedRequests'[k].status # "abandoned" =>
                failedRequests'[k].status = "pending"
          /\ failedRequests'[k].nextRetryAt =
                now + Min(1000 * Pow2(failedRequests[k].retryCount + 1), SWEEP_MAX_DELAY_MS)
          /\ failedRequests'[k].lastDelay >= failedRequests[k].lastDelay
          /\ failedRequests'[k].lastDelay <= SWEEP_MAX_DELAY_MS]_vars

---------------------------------------------------------------------------
(* SkyTabClient: properties *)

Is4xxTerminal(r) == r.kind = "http" /\ r.status >= 400 /\ r.status < 500 /\ r.status # 429

All500(rs) == \A i \in 1..Len(rs) : rs[i].kind = "http" /\ rs[i].status = 500

\* C5 (retry ceiling): a request() call whose token acquisitions all succeed and
\* whose vendor attempts are all answered with HTTP 500 never issues more than
\* 1 + maxRetries attempts; it ends exactly when the (1 + maxRetries)-th answer
\* has arrived, and then throws a SkyTabApiError with statusCode 500.
C5_RetryCeiling ==
  \A p \in Callers :
    LET c == cl[p]
    IN  (c.op = "request" /\ c.nTokenFail = 0 /\ All500(c.resps)) =>
          /\ c.nAttempts <= 1 + c.maxRetries
          /\ (c.pc = "done") = (Len(c.resps) = 1 + c.maxRetries)
          /\ c.pc = "done" =>
                /\ c.nAttempts = 1 + c.maxRetries
                /\ c.result = "error"
                /\ c.thrown.type = "SkyTabApiError"
                /\ c.thrown.statusCode = 500

C5_Witness ==
  \E p \in Callers :
    LET c == cl[p]
    IN  /\ c.op = "request" /\ c.pc = "done" /\ c.nTokenFail = 0
        /\ c.maxRetries = DEFAULT_RETRIES
        /\ Len(c.resps) = 4 /\ All500(c.resps) /\ c.nAttempts = 4
        /\ c.thrown = SkyTabApiError("INTERNAL_ERROR", 500)

\* C6 (no retry on terminal 4xx): once an attempt of a request() call has been
\* answered with a 4xx status other than 429, the call has ended: it threw a
\* SkyTabApiError with the vendor's error code (UNKNOWN_ERROR if the body has
\* none) and that status, no attempt was issued after that answer and no sleep
\* was started for it; when it is the first answer, exactly one attempt was made.
C6_NoRetryOn4xx ==
  \A p \in Callers :
    LET c == cl[p]
        n == Len(c.resps)
    IN  (c.op = "request" /\ n > 0 /\ Is4xxTerminal(c.resps[n])) =>
          /\ c.pc = "done"
          /\ c.result = "error"
          /\ c.thrown = SkyTabApiError(IF c.resps[n].code = "none" THEN "UNKNOWN_ERROR"
                                       ELSE c.resps[n].code, c.resps[n].status)
          /\ c.nAttempts = n
          /\ \A i \in 1..Len(c.sleeps) : c.sleeps[i].after < n
          /\ n = 1 => c.nAttempts = 1

C6_Witness ==
  \E p \in Callers :
    LET c == cl[p]
    IN  /\ c.op = "request" /\ c.pc = "done" /\ c.maxRetries = DEFAULT_RETRIES
        /\ c.resps = <<HttpResp(400, "INVALID_REQUEST", NoHeader)>>
        /\ c.nAttempts = 1
        /\ c.thrown = SkyTabApiError("INVALID_REQUEST", 400)

\* C7 (429 honors Retry-After): whenever a request() call sleeps after an attempt
\* answered 429 with a Retry-After header of s seconds, the sleep lasts at least
\* s * 1000 ms.
C7_HonorsRetryAfter ==
  \A p \in Callers :
    LET c == cl[p]
        n == Len(c.resps)
    IN  (c.pc = "sleeping" /\ n > 0 /\ c.resps[n].kind = "http"
           /\ c.resps[n].status = 429 /\ ParseInt(c.resps[n].retryAfter) > 0) =>
          c.sleepDelay >= ParseInt(c.resps[n].retryAfter) * 1000

\* C8 (token caching): no call triggers more than one credential exchange, and a
\* call that ends with a token it got from an exchange leaves the cache valid,
\* so that the next call is served from the cache.
C8_OneExchangePerCall ==
  \A p \in Callers :
    LET c == cl[p]
    IN  /\ c.nExchanges <= 1
        /\ (c.pc = "done" /\ c.op = "getAccessToken" /\ c.result = "ok"
              /\ c.nExchanges = 1 /\ now = c.tokenAt) => CacheValid

\* C9 (single-flight refresh): at most one credential exchange is in flight at
\* any time.
C9_SingleFlight ==
  Cardinality({p \in Callers : cl[p].pc = "exchanging"}) <= 1

\* C10 (token freshness): the token carried by a vendor attempt expired more than
\* 5 minutes after the moment it was handed to the attempt.
C10_TokenFresh ==
  \A p \in Callers :
    cl[p].pc = "fetching" => cl[p].tokenExp > cl[p].tokenAt + bufferMs

\* attempts admitted by checkRateLimit in the 60 seconds that end now
AdmittedInWindow ==
  Cardinality({i \in 1..Len(requestQueue) : now - requestQueue[i] < RATE_LIMIT_WINDOW_MS})

\* C11 (rate limit): whatever the interleaving of the request() calls, at most
\* RATE_LIMIT_REQUESTS_PER_MINUTE attempts are admitted within any 60 seconds,
\* and a caller that found the window full is admitted only once the oldest
\* request it saw is at least 60 seconds old.
C11_RateLimit ==
  /\ AdmittedInWindow <= RATE_LIMIT_REQUESTS_PER_MINUTE
  /\ \A p \in Callers :
        cl[p].admitAt # -1 => cl[p].admitAt - cl[p].fullOldest >= RATE_LIMIT_WINDOW_MS

\* the failure kinds request() retries
IsRetriedKind(r) ==
  \/ r.kind \in {"timeout", "network"}
  \/ r.kind = "http" /\ (r.status >= 500 \/ r.status = 429)

\* C17 (typed error on exhaustion): when request() has given up after an attempt
\* that failed with a 5xx, a 429, a timeout or a network-level error, the error
\* it raised is a SkyTabApiError with an error code and an HTTP statusCode.
C17_TypedOnExhaustion ==
  \A p \in Callers :
    LET c == cl[p]
        n == Len(c.resps)
    IN  (c.op = "request" /\ c.pc = "done" /\ c.result = "error"
           /\ n > 0 /\ c.respAt[n] = c.maxRetries /\ IsRetriedKind(c.resps[n])) =>
          /\ c.thrown.type = "SkyTabApiError"
          /\ c.thrown.code # "none"
          /\ c.thrown.statusCode >= 400

\* C18 (authentication failures are not retried): once the credentials were
\* found missing or the credential exchange was rejected during a request()
\* call, the call has failed: there is exactly one such failure in the call and
\* no attempt or exchange after it.
C18_AuthNotRetried ==
  \A p \in Callers :
    LET c == cl[p]
    IN  (c.op = "request" /\ c.nAuthFail > 0) =>
          /\ c.pc = "done"
          /\ c.result = "error"
          /\ c.nAuthFail = 1

\* the delay the header of response r sets, 0 if it sets none
HeaderDelay(r) ==
  IF r.kind = "http" /\ r.status = 429 /\ ParseInt(r.retryAfter) > 0
  THEN ParseInt(r.retryAfter) * 1000 ELSE 0

\* C19 (backoff between attempts): when attempt k of a request() call failed
\* with a 5xx, a 429, a network-level error or a timeout and the call went on to
\* attempt k + 1, it slept min(baseDelay * 2^k, 30000) ms in between, unless a
\* Retry-After header set the delay; no sleep is longer than 30000 ms.
C19_BackoffBetweenAttempts ==
  \A p \in Callers :
    LET c == cl[p]
    IN  c.op = "request" =>
          /\ \A j \in 1..Len(c.sleeps) : c.sleeps[j].delay <= MAX_BACKOFF_MS
          /\ \A i \in 1..Len(c.resps) :
                (/\ IsRetriedKind(c.resps[i])
                 /\ c.respAt[i] < c.maxRetries
                 /\ c.attempt > c.respAt[i]
                 /\ HeaderDelay(c.resps[i]) = 0) =>
                   \E j \in 1..Len(c.sleeps) :
                     /\ c.sleeps[j].after = i
                     /\ c.sleeps[j].attempt = c.respAt[i]
                     /\ c.sleeps[j].delay =
                           Min(c.baseRetryDelay * Pow2(c.respAt[i]), MAX_BACKOFF_MS)

---------------------------------------------------------------------------
(* POST /skytab/webhook: properties *)

\* the decoded signature of request q differs from the HMAC in length or content
SignatureMismatch(q) ==
  LET signatureBuffer == SignatureBuffers[<<reqs[q].eventId, reqs[q].signature>>]
      expectedBuffer == ExpectedBuffers[reqs[q].eventId]
  IN  Len(signatureBuffer) # Len(expectedBuffer) \/ signatureBuffer # expectedBuffer

C13_AlwaysAcknowledged ==
  \A q \in ReqIds :
    /\ reqs[q].status \in {0, 200, 401}
    /\ reqs[q].status = 401 => ~reqs[q].verified
    /\ reqs[q].verified =>
          /\ reqs[q].pc # "create" => reqs[q].status = 200
          /\ reqs[q].run # 0 => reqs[q].status = 200
          /\ reqs[q].pc = "create" => reqs[q].status = 0

C13_Witness ==
  \E q1, q2 \in ReqIds :
    /\ reqs[q1].eventId = "e4" /\ reqs[q1].pc = "done" /\ reqs[q1].run # 0
    /\ runs[reqs[q1].run].result = "threw" /\ reqs[q1].status = 200
    /\ reqs[q2].eventId = "e4" /\ reqs[q2].pc = "done" /\ reqs[q2].error
    /\ reqs[q2].status = 200 /\ reqs[q2].run = 0

\* C14 (failure recording): when the handling of an accepted webhook threw and
\* the callback has finished, the WebhookEvent row of that eventId has status
\* failed, an error message and retryCount 1 and was not marked processed, and
\* the request was answered 200.
C14_FailureRecorded ==
  \A q \in ReqIds :
    (reqs[q].pc = "done" /\ reqs[q].run # 0 /\ runs[reqs[q].run].result = "threw") =>
      /\ webhookEvents[reqs[q].eventId].status = "failed"
      /\ webhookEvents[reqs[q].eventId].errorMessage
      /\ webhookEvents[reqs[q].eventId].retryCount = 1
      /\ ~webhookEvents[reqs[q].eventId].processedAt
      /\ reqs[q].status = 200

C14_Witness ==
  \E q \in ReqIds :
    /\ reqs[q].eventId = "e4" /\ reqs[q].pc = "done" /\ reqs[q].run # 0
    /\ runs[reqs[q].run].result = "threw"
    /\ webhookEvents["e4"] = [status |-> "failed", retryCount |-> 1,
                              errorMessage |-> TRUE, processedAt |-> FALSE]
    /\ orders["o2"].status = "pending"

---------------------------------------------------------------------------
(* POST /skytab/send-order: properties *)

\* why the send-order request failed: the input, or what request() ended with
FailureCause ==
  CASE so.orderId = "none" -> "invalid body"
    [] so.orderId \notin OrderIds -> "missing order"
    [] PosSystemType(so.orderId) = "none" -> "no POS configuration"
    [] cl[1].thrown.type = "TypeError" -> "unavailable"
    [] cl[1].thrown.type = "Error" -> "credentials"
    [] cl[1].thrown.statusCode >= 500 -> "5xx"
    [] cl[1].thrown.statusCode = 408 -> "timeout"
    [] cl[1].thrown.statusCode = 429 -> "429"
    [] OTHER -> "4xx"

\* C15 (failed-request enqueue): a failed send-order request has created exactly
\* one row (pending, retryCount 0, nextRetryAt = now + 60 s) when it failed for a
\* vendor 5xx, a timeout or an unavailable service, and no row when it failed
\* for a 4xx other than 429, rejected or missing credentials, a missing order or
\* POS configuration, or an invalid body; a request that succeeded created none.
C15_EnqueueIffRetryable ==
  so.pc = "done" =>
    /\ so.status = 200 => failedRequests = <<>>
    /\ (so.status = 500 /\ FailureCause \in {"5xx", "timeout", "unavailable"}) =>
          /\ so.enqueued = 1
          /\ Len(failedRequests) = 1
          /\ failedRequests[1].status = "pending"
          /\ failedRequests[1].retryCount = 0
          /\ failedRequests[1].nextRetryAt = so.enqueuedAt + ENQUEUE_DELAY_MS
    /\ (so.status = 500 /\ FailureCause \in {"4xx", "credentials", "missing order",
                                              "no POS configuration", "invalid body"}) =>
          /\ so.enqueued = 0
          /\ failedRequests = <<>>

---------------------------------------------------------------------------
(* SkyTabProvider.cancelOrder: properties *)

\* C20 (cancel idempotence): a cancelOrder call whose request() failed has
\* returned true if the error carries the code TICKET_NOT_FOUND or
\* INVALID_TICKET_STATUS and has thrown for every other failure; a call made for
\* a ticket that was already cancelled or gone, and that the vendor answered
\* with its verdict, has returned true.
C20_CancelIdempotent ==
  co.pc = "done" =>
    LET c == cl[1]
        n == Len(c.resps)
    IN  /\ (c.result = "error"
              /\ c.thrown.code \in {"TICKET_NOT_FOUND", "INVALID_TICKET_STATUS"}) =>
                co.returned = "true"
        /\ (c.result = "error"
              /\ c.thrown.code \notin {"TICKET_NOT_FOUND", "INVALID_TICKET_STATUS"}) =>
                co.returned = "threw"
        /\ (co.ticketAtCall \in {"cancelled", "gone"} /\ n > 0
              /\ c.resps[n].kind = "http" /\ c.resps[n].status \in {400, 404}) =>
                co.returned = "true"

C20_Witness ==
  /\ co.pc = "done"
  /\ co.calls = 2
  /\ co.outcomes = <<"true", "true">>
  /\ co.ticketAtCall = "cancelled"
  /\ cl[1].thrown = SkyTabApiError("INVALID_TICKET_STATUS", 400)


---------------------------------------------------------------------------
(* Status mapping: properties *)

\* the status that processing event e wrote to the order and its history
WrittenStatus(e) ==
  {history[k].status : k \in {j \in 1..Len(history) : history[j].eventId = e}}

\* C21 (status mapping): getOrderStatus returns, for every status the vendor
\* answers, one neutral status, the one the webhook processor maps the same
\* vendor status to (both as a function and as the status a processed ticket
\* event with that vendor status has written), and an unrecognised vendor value
\* gives pending without a throw.
C21_StatusMapping ==
  (gs.pc = "done" /\ ~gs.threw) =>
    /\ gs.status \in ORDER_STATUSES
    /\ gs.status = mapSkyTabStatusToOrderStatus(gs.ticketStatus)
    /\ \A e \in StatusEvents :
         Payloads[e].ticket.status = gs.ticketStatus => WrittenStatus(e) \subseteq {gs.status}
    /\ gs.ticketStatus \notin TicketStatuses => gs.status = "pending"


---------------------------------------------------------------------------
(* Ticket events: properties *)

\* the invocations whose handler has returned or thrown
HandlerEnded(r) == runs[r].pc \in {"record", "recordFailed", "done"}

IsTicketRun(r) ==
  runs[r].eventId \in EventIds /\ Payloads[runs[r].eventId].eventType \in TicketEvents

MappedStatus(r) == mapSkyTabStatusToOrderStatus(Payloads[runs[r].eventId].ticket.status)

\* C22 (ticket event application): the order update of a ticket.created,
\* ticket.updated or ticket.status_changed event sets the found order's status to
\* the mapped vendor status, the history insert appends exactly one row with
\* that order and status, and in every state where the handler has ended
\* (returned or thrown) after writing an order status, the history holds the
\* matching row.
C22_TicketEventApplied ==
  /\ [][\A r \in RunIds :
          /\ (IsTicketRun(r) /\ runs[r].pc = "updateOrder" /\ runs'[r].pc = "addHistory") =>
                orders'[runs[r].order].status = MappedStatus(r)
          /\ (IsTicketRun(r) /\ runs[r].pc = "addHistory" /\ runs'[r].pc = "record") =>
                /\ Len(history') = Len(history) + 1
                /\ history'[Len(history')].orderId = runs[r].order
                /\ history'[Len(history')].status = MappedStatus(r)]_vars
  /\ [](\A r \in RunIds :
          (IsTicketRun(r) /\ HandlerEnded(r) /\ runs[r].writes > 0) =>
             \E k \in 1..Len(history) :
                /\ history[k].orderId = runs[r].order
                /\ history[k].status = MappedStatus(r)
                /\ history[k].eventId = runs[r].eventId)


---------------------------------------------------------------------------
(* Missing referents: properties *)

\* the events whose referent no local row matches (order of t9/o9, location
\* L-zz), and the event of an unrecognised type
NoReferentEvents == {"e3", "e8", "e10", "e11"}

Recorded(e, status) ==
  \E k \in 1..Len(auditLog) : auditLog[k] = AuditRow(e, status)

\* invocation r takes a step (a started invocation moves on)
Stepped(r) ==
  runs[r].pc # "idle" /\ (runs'[r].pc # runs[r].pc \/ runs'[r].i # runs[r].i)

---------------------------------------------------------------------------
(* Last write wins: properties *)

IsProcessedRow(a) == a.action = "SKYTAB_WEBHOOK" /\ a.status = "processed"

\* the events recorded as processed, in the order they were processed
ProcessedEvents == SelectSeq(auditLog, IsProcessedRow)

\* the status that handling event e writes
EventStatus(e) ==
  IF Payloads[e].eventType = "ticket.cancelled" THEN "cancelled"
  ELSE mapSkyTabStatusToOrderStatus(Payloads[e].ticket.status)

Quiescent == \A r \in RunIds : runs[r].pc \in {"idle", "done"}

\* C24 (last write wins): with the ticket events of one known order processed
\* one after the other, whenever no invocation is in progress the status
\* history holds exactly one row per processed event, in processing order and
\* with that event's mapped status, and the order's status is the mapped status
\* of the last processed event, whatever it was before.
C24_LastWriteWins ==
  Quiescent =>
    /\ Len(history) = Len(ProcessedEvents)
    /\ \A k \in 1..Len(history) :
         /\ history[k].eventId = ProcessedEvents[k].entityId
         /\ history[k].orderId = "o1"
         /\ history[k].status = EventStatus(history[k].eventId)
    /\ history # <<>> => orders["o1"].status = EventStatus(history[Len(history)].eventId)

C24_Witness ==
  /\ Quiescent
  /\ Len(history) = 2
  /\ history[1].eventId = "e2" /\ history[1].status = "cancelled"
  /\ history[2].eventId = "e1"
  /\ orders["o1"].status = "preparing"


---------------------------------------------------------------------------
(* Overlapping sweeps: properties *)

\* the row that sweep s is re-attempting (it has marked it and awaits the provider)
Attempting(s) == IF sw[s].pc = "send" THEN sw[s].batch[sw[s].i].id ELSE 0

\* C25 (overlapping sweeps): no row is being re-attempted by two sweeps at once;
\* a row that a sweep is re-attempting still has the status retrying that this
\* sweep gave it (no other sweep has re-attempted it meanwhile and written
\* completed, pending or abandoned, and none of these is about to be
\* overwritten); and every row has retryCount <= maxRetries.
C25_OverlappingSweeps ==
  /\ \A s, t \in Sweepers : (s # t /\ Attempting(s) # 0) => Attempting(s) # Attempting(t)
  /\ \A s \in Sweepers :
        Attempting(s) # 0 => failedRequests[Attempting(s)].status = "retrying"
  /\ \A k \in Rows : failedRequests[k].retryCount <= failedRequests[k].maxRetries


---------------------------------------------------------------------------
(* Duplicate short-circuit: properties *)

\* C26 (duplicate short-circuit only after success): an invocation that returns
\* 'Event already processed' has been preceded by an invocation for the same
\* eventId that was recorded as processed; an event whose only recorded attempts
\* failed is never short-circuited.
C26_ShortCircuitAfterSuccess ==
  \A r \in RunIds :
    (runs[r].pc = "done" /\ runs[r].result = "Event already processed") =>
       Recorded(runs[r].eventId, "processed")


---------------------------------------------------------------------------
(* Sweep completion: properties *)

---------------------------------------------------------------------------
(* Order submission: properties *)

\* a create-ticket request of the send-order request has been issued to the vendor
Submitting == so.pc = "sending" /\ cl[1].nAttempts > 0

\* C28 (at most one POS submission per synced order): no create-ticket request
\* is issued for an order that is recorded as synced with a posOrderId.
C28_NoResubmission ==
  Submitting =>
    ~(/\ orders[so.orderId].posSyncStatus = "synced"
      /\ orders[so.orderId].posOrderId # "none")


---------------------------------------------------------------------------
(* Menu synchronisation: properties *)

\* C29 (menu-change notification is not lost): once syncMenu has returned and no
\* invocation of processWebhook is in progress, the menus of the synced location
\* are flagged as needing re-sync (lastSyncAt = null) if a menu event flagged
\* them after the catalog had been fetched and before lastSyncAt was stamped.
C29_MenuFlagKept ==
  (sm.pc = "done" /\ sm.result = "ok" /\ sm.flaggedInFlight /\ Quiescent) =>
     menuLastSync[sm.locationId] = 0


---------------------------------------------------------------------------
(* Queue liveness: properties *)

\* C30 (queue liveness): with the sweep invoked again and again and the clock
\* reaching every nextRetryAt, every stored row eventually is completed or
\* abandoned.
C30_QueueLiveness ==
  \A k \in 1..MaxRows :
    (k <= Len(failedRequests)) ~> (k <= Len(failedRequests) /\ Terminal(failedRequests[k]))

=============================================================================
